---- MODULE Spec2Model ----
(***************************************************************************)
(* State-machine model of the BPF service-NAT syncer                       *)
(* (felix/bpf/proxy/syncer.go): Apply with its four partial-apply phases,  *)
(* cold-start reconstruction, id allocation, node-port expansion and the   *)
(* route fix-up task, and the affinity sweeper.                            *)
(***************************************************************************)
EXTENDS Integers, Sequences, FiniteSets, TLC

(* ---------------------------------------------------------------------- *)
(* Bounds of the model                                                     *)
(* ---------------------------------------------------------------------- *)
\* Apply calls in one behaviour (over all syncer instances).
MaxApplies == 3
\* Process restarts (a new Syncer over the same kernel maps).
MaxRestarts == 1
\* Failing kernel writes / failing affinity iterations in one behaviour.
MaxFailures == 1
\* Stop calls in one behaviour.
MaxStops == 2

(* ---------------------------------------------------------------------- *)
(* Finite maps                                                             *)
(* ---------------------------------------------------------------------- *)
EmptyMap == [x \in {} |-> {}]

Put(m, k, v) == [x \in (DOMAIN m) \cup {k} |-> IF x = k THEN v ELSE m[x]]

Del(m, k) == [x \in (DOMAIN m) \ {k} |-> m[x]]

Perms(S) == {p \in [1..Cardinality(S) -> S] : \A i, j \in 1..Cardinality(S) : p[i] = p[j] => i = j}

SeqToSet(s) == {s[i] : i \in 1..Len(s)}

MaxOf(S, dflt) == IF S = {} THEN dflt ELSE CHOOSE x \in S : \A y \in S : y <= x

(* ---------------------------------------------------------------------- *)
(* Schema of the kernel maps (nat package)                                 *)
(* ---------------------------------------------------------------------- *)
ZeroCIDR == "0.0.0.0/0"

\* The reserved count of a blackhole frontend (all ones in the kernel's u32;
\* here the largest integer of the checker, above every backend count).
BlackHoleCount == 2147483647

NATFlgExternalLocal == "ExternalLocal"

NATFlgInternalLocal == "InternalLocal"

NATFlgExclude == "Exclude"

NewNATKeySrc(addr, port, proto, cidr) == [addr |-> addr, port |-> port, proto |-> proto, src |-> cidr]

NewNATKey(addr, port, proto) == NewNATKeySrc(addr, port, proto, ZeroCIDR)

NewNATValueWithFlags(id, count, local, affinityTimeo, flags) ==
    [id |-> id, count |-> count, local |-> local, affinityTimeo |-> affinityTimeo, flags |-> flags]

NewNATValue(id, count, local, affinityTimeo) == NewNATValueWithFlags(id, count, local, affinityTimeo, {})

NewNATBackendKey(id, idx) == [id |-> id, idx |-> idx]

NewNATBackendValue(addr, port) == [addr |-> addr, port |-> port]

AffinityKeyCopy(key) == [addr |-> key.addr, port |-> key.port, proto |-> key.proto]

(* ---------------------------------------------------------------------- *)
(* Syncer configuration and service keys                                   *)
(* ---------------------------------------------------------------------- *)
podNPIP == "255.255.255.255"

ipFamily == 4

\* NewSyncer's nodePortIPs argument: one host address and the sentinel.
nodePortIPs == <<"192.168.1.10", podNPIP>>

\* CIDRs of the other address family (src.IP.To4() == nil).
V6CIDRs == {"2001:db8::/32"}

svcTypeExternalIP == "ExternalIP"

svcTypeNodePort == "NodePort"

svcTypeNodePortRemote == "NodePortRemote"

svcTypeLoadBalancer == "LoadBalancer"

\* svcType2String[t] + ":" + ip, kept as the pair it is built from.
getSvcKeyExtra(t, ip) == <<t, ip>>

getSvcKey(sname, extra) == [sname |-> sname, extra |-> extra]

hasSvcKeyExtra(skey, t) == skey.extra # <<>> /\ skey.extra[1] = t

isSvcKeyDerived(skey) ==
    \/ hasSvcKeyExtra(skey, svcTypeExternalIP)
    \/ hasSvcKeyExtra(skey, svcTypeNodePort)
    \/ hasSvcKeyExtra(skey, svcTypeLoadBalancer)

ProtoV1ToInt(p) == CASE p = "TCP" -> 6 [] p = "UDP" -> 17 [] p = "SCTP" -> 132

(* ---------------------------------------------------------------------- *)
(* Service model                                                           *)
(* ---------------------------------------------------------------------- *)
ExternallyAccessible(info) ==
    info.nodePort # 0 \/ Len(info.loadBalancerVIPs) # 0 \/ Len(info.externalIPs) # 0

UsesClusterEndpoints(info) == ~info.nodeLocalInternal \/ ExternallyAccessible(info)

UsesLocalEndpoints(info) ==
    info.nodeLocalInternal \/ (info.nodeLocalExternal /\ ExternallyAccessible(info))

cidrEqual(a, b) ==
    IF Len(a) # Len(b) THEN FALSE
    ELSE IF Len(a) = 1 THEN a[1] = b[1]
    ELSE \A i \in 1..Len(b) : b[i] \in SeqToSet(a)

ServicePortEqual(a, b) ==
    /\ a.clusterIP = b.clusterIP
    /\ a.port = b.port
    /\ a.sessionAffinityType = b.sessionAffinityType
    /\ a.stickyMaxAgeSeconds = b.stickyMaxAgeSeconds
    /\ cidrEqual(a.externalIPs, b.externalIPs)
    /\ cidrEqual(a.loadBalancerVIPs, b.loadBalancerVIPs)
    /\ a.protocol = b.protocol
    /\ cidrEqual(a.loadBalancerSourceRanges, b.loadBalancerSourceRanges)
    /\ a.healthCheckNodePort = b.healthCheckNodePort
    /\ a.nodePort = b.nodePort
    /\ a.nodeLocalExternal = b.nodeLocalExternal
    /\ a.nodeLocalInternal = b.nodeLocalInternal
    /\ a.hintsAnnotation = b.hintsAnnotation
    /\ ExternallyAccessible(a) = ExternallyAccessible(b)
    /\ UsesClusterEndpoints(a) = UsesClusterEndpoints(b)
    /\ UsesLocalEndpoints(a) = UsesLocalEndpoints(b)

\* The copy keeps every field, annotations included.
serviceInfoFromK8sServicePort(sport) == sport

\* Topology-aware hints: an endpoint is kept unless the annotation is auto,
\* the node has a zone, the endpoint has hints and the zone is not among them.
ShouldAppendTopologyAwareEndpoint(nodeZone, hintsAnnotation, zoneHints) ==
    \/ hintsAnnotation \notin {"Auto", "auto"}
    \/ nodeZone = ""
    \/ zoneHints = {}
    \/ nodeZone \in zoneHints

(* ---------------------------------------------------------------------- *)
(* The sync pass: desired entries computed from the desired state          *)
(* ---------------------------------------------------------------------- *)
\* A left fold, the shape of every "for _, x := range seq" loop below.
FoldSeq(Op(_, _), base, seq) ==
    LET f[i \in 0..Len(seq)] == IF i = 0 THEN base ELSE Op(f[i - 1], seq[i])
    IN  f[Len(seq)]

\* The pass state threaded through apply(): the two desired caches, the new
\* maps, the id counter, the sticky maps, the misses and the ids issued.
PassStart(nextID) ==
    [front |-> EmptyMap, back |-> EmptyMap, newSvcMap |-> EmptyMap, newEpsMap |-> EmptyMap,
     nextSvcID |-> nextID, stickySvcs |-> EmptyMap, stickyEps |-> EmptyMap,
     misses |-> <<>>, issued |-> <<>>]

newSvcID_noIncrement(st) == [id |-> st.nextSvcID, st |-> [st EXCEPT !.issued = Append(@, st.nextSvcID)]]

newSvcID(st) ==
    [id |-> st.nextSvcID,
     st |-> [st EXCEPT !.nextSvcID = @ + 1, !.issued = Append(@, st.nextSvcID)]]

getSvcNATKey(svc) == NewNATKey(svc.clusterIP, svc.port, ProtoV1ToInt(svc.protocol))

getSvcNATKeyLBSrcRange(svc) ==
    LET keep == SelectSeq(svc.loadBalancerSourceRanges,
                          LAMBDA src : IF src \in V6CIDRs THEN ipFamily = 6 ELSE ipFamily # 6)
    IN  [i \in 1..Len(keep) |->
            NewNATKeySrc(svc.clusterIP, svc.port, ProtoV1ToInt(svc.protocol), keep[i])]

affinityTimeoOf(svc) ==
    IF svc.sessionAffinityType = "ClientIP" THEN svc.stickyMaxAgeSeconds ELSE 0

writeSvcBackend(st, svcID, idx, ep) ==
    LET key == NewNATBackendKey(svcID, idx)
        val == NewNATBackendValue(ep.ip, ep.port)
    IN  [st EXCEPT !.back = Put(@, key, val),
                   !.stickyEps = IF svcID \in DOMAIN @ THEN Put(@, svcID, @[svcID] \cup {val}) ELSE @]

writeSvc(st, svc, svcID, count, local, flags) ==
    LET key == getSvcNATKey(svc)
        fl  == IF svc.excludeService THEN flags \cup {NATFlgExclude} ELSE flags
        val == NewNATValueWithFlags(svcID, count, local, affinityTimeoOf(svc), fl)
    IN  [st EXCEPT !.front = Put(@, key, val),
                   !.stickySvcs = IF svcID \in DOMAIN st.stickyEps
                                  THEN Put(@, AffinityKeyCopy(key),
                                           [id |-> svcID, timeo |-> affinityTimeoOf(svc)])
                                  ELSE @]

writeLBSrcRangeSvcNATKeys_noBlackhole(st, svc, svcID, count, local, flags) ==
    IF Len(svc.loadBalancerSourceRanges) = 0 THEN st
    ELSE LET keys == getSvcNATKeyLBSrcRange(svc)
             val  == NewNATValueWithFlags(svcID, count, local, affinityTimeoOf(svc), flags)
         IN  FoldSeq(LAMBDA s, key : [s EXCEPT !.front = Put(@, key, val)], st, keys)

writeLBSrcRangeSvcNATKeys(st, svc, svcID, count, local, flags) ==
    IF Len(svc.loadBalancerSourceRanges) = 0 THEN st
    ELSE LET keys == getSvcNATKeyLBSrcRange(svc)
             val  == NewNATValueWithFlags(svcID, count, local, affinityTimeoOf(svc), flags)
             s1   == FoldSeq(LAMBDA s, key : [s EXCEPT !.front = Put(@, key, val)], st, keys)
         IN  [s1 EXCEPT !.front = Put(@, getSvcNATKey(svc), NewNATValue(svcID, BlackHoleCount, 0, 0))]

updateService_writesTerminating(st, skey, sinfo, id, eps) ==
    LET locals  == SelectSeq(eps, LAMBDA ep : ep.isLocal)
        others  == SelectSeq(eps, LAMBDA ep : ~ep.isLocal)
        wlocals == locals
        wothers == others
        written == wlocals \o wothers
        cnt     == Len(written)
        local   == Len(wlocals)
        s0 == IF sinfo.sessionAffinityType = "ClientIP"
              THEN [st EXCEPT !.stickyEps = Put(@, id, {})] ELSE st
        w[i \in 0..cnt] == IF i = 0 THEN s0 ELSE writeSvcBackend(w[i - 1], id, i - 1, written[i])
        flags == IF sinfo.nodeLocalInternal THEN {NATFlgInternalLocal} ELSE {}
        s1 == writeSvc(w[cnt], sinfo, id, cnt, local, flags)
        s2 == IF ~hasSvcKeyExtra(skey, svcTypeNodePortRemote)
              THEN [s1 EXCEPT !.newEpsMap = Put(@, skey.sname, locals \o others)] ELSE s1
    IN  [st |-> s2, count |-> cnt, local |-> local]

updateService_remoteShadows(st, skey, sinfo, id, eps) ==
    LET locals  == SelectSeq(eps, LAMBDA ep : ep.isLocal)
        others  == SelectSeq(eps, LAMBDA ep : ~ep.isLocal)
        wlocals == SelectSeq(locals, LAMBDA ep : ep.ready)
        wothers == SelectSeq(others, LAMBDA ep : ep.ready)
        written == wlocals \o wothers
        cnt     == Len(written)
        local   == Len(wlocals)
        s0 == IF sinfo.sessionAffinityType = "ClientIP"
              THEN [st EXCEPT !.stickyEps = Put(@, id, {})] ELSE st
        w[i \in 0..cnt] == IF i = 0 THEN s0 ELSE writeSvcBackend(w[i - 1], id, i - 1, written[i])
        flags == IF sinfo.nodeLocalInternal THEN {NATFlgInternalLocal} ELSE {}
        s1 == writeSvc(w[cnt], sinfo, id, cnt, local, flags)
        s2 == [s1 EXCEPT !.newEpsMap = Put(@, skey.sname, locals \o others)]
    IN  [st |-> s2, count |-> cnt, local |-> local]

updateService_localsUnfiltered(st, skey, sinfo, id, eps) ==
    LET locals  == SelectSeq(eps, LAMBDA ep : ep.isLocal)
        others  == SelectSeq(eps, LAMBDA ep : ~ep.isLocal)
        wlocals == SelectSeq(locals, LAMBDA ep : ep.ready)
        wothers == SelectSeq(others, LAMBDA ep : ep.ready)
        written == wlocals \o wothers
        cnt     == Len(written)
        local   == Len(locals)
        s0 == IF sinfo.sessionAffinityType = "ClientIP"
              THEN [st EXCEPT !.stickyEps = Put(@, id, {})] ELSE st
        w[i \in 0..cnt] == IF i = 0 THEN s0 ELSE writeSvcBackend(w[i - 1], id, i - 1, written[i])
        flags == IF sinfo.nodeLocalInternal THEN {NATFlgInternalLocal} ELSE {}
        s1 == writeSvc(w[cnt], sinfo, id, cnt, local, flags)
        s2 == IF ~hasSvcKeyExtra(skey, svcTypeNodePortRemote)
              THEN [s1 EXCEPT !.newEpsMap = Put(@, skey.sname, locals \o others)] ELSE s1
    IN  [st |-> s2, count |-> cnt, local |-> local]

updateService(st, skey, sinfo, id, eps) ==
    LET locals  == SelectSeq(eps, LAMBDA ep : ep.isLocal)
        others  == SelectSeq(eps, LAMBDA ep : ~ep.isLocal)
        wlocals == SelectSeq(locals, LAMBDA ep : ep.ready)
        wothers == SelectSeq(others, LAMBDA ep : ep.ready)
        written == wlocals \o wothers
        cnt     == Len(written)
        local   == Len(wlocals)
        s0 == IF sinfo.sessionAffinityType = "ClientIP"
              THEN [st EXCEPT !.stickyEps = Put(@, id, {})] ELSE st
        w[i \in 0..cnt] == IF i = 0 THEN s0 ELSE writeSvcBackend(w[i - 1], id, i - 1, written[i])
        flags == IF sinfo.nodeLocalInternal THEN {NATFlgInternalLocal} ELSE {}
        s1 == writeSvc(w[cnt], sinfo, id, cnt, local, flags)
        s2 == IF ~hasSvcKeyExtra(skey, svcTypeNodePortRemote)
              THEN [s1 EXCEPT !.newEpsMap = Put(@, skey.sname, locals \o others)] ELSE s1
    IN  [st |-> s2, count |-> cnt, local |-> local]

\* applySvc's choice between the previous id and a new one.
reusePrevID_never(prev, skey, sinfo) == FALSE

reusePrevID(prev, skey, sinfo) == skey \in DOMAIN prev /\ ServicePortEqual(prev[skey].svc, sinfo)

applySvc(st, prev, skey, sinfo, eps) ==
    LET reuse == reusePrevID(prev, skey, sinfo)
        fresh == newSvcID(st)
        id    == IF reuse THEN prev[skey].id ELSE fresh.id
        s0    == IF reuse THEN st ELSE fresh.st
        r     == updateService(s0, skey, sinfo, id, eps)
    IN  [r.st EXCEPT !.newSvcMap = Put(@, skey,
            [id |-> id, count |-> r.count, localCount |-> r.local, svc |-> sinfo])]

applyDerived(st, sname, t, sinfo) ==
    LET svc   == st.newSvcMap[getSvcKey(sname, <<>>)]
        skey  == getSvcKey(sname, getSvcKeyExtra(t, sinfo.clusterIP))
        flags == IF t \in {svcTypeNodePort, svcTypeLoadBalancer, svcTypeNodePortRemote}
                 THEN (IF sinfo.nodeLocalExternal THEN {NATFlgExternalLocal} ELSE {})
                      \cup (IF sinfo.nodeLocalInternal THEN {NATFlgInternalLocal} ELSE {})
                 ELSE {}
        s1 == writeSvc(st, sinfo, svc.id, svc.count, svc.localCount, flags)
        s2 == IF t \in {svcTypeLoadBalancer, svcTypeExternalIP}
              THEN writeLBSrcRangeSvcNATKeys(s1, sinfo, svc.id, svc.count, svc.localCount, flags)
              ELSE s1
    IN  [s2 EXCEPT !.newSvcMap = Put(@, skey,
            [id |-> svc.id, count |-> svc.count, localCount |-> svc.localCount, svc |-> sinfo])]

(* ---------------------------------------------------------------------- *)
(* Node-port expansion                                                     *)
(* ---------------------------------------------------------------------- *)
FlagWorkload == "Workload"

FlagLocal == "Local"

expandNodePorts_includesLocal(sname, sinfo, eps, nport, lookup) ==
    LET remote(ep) == /\ ep.ip \in DOMAIN lookup
                      /\ FlagWorkload \in lookup[ep.ip].flags
        nodes   == {lookup[eps[i].ip].nextHop : i \in {j \in 1..Len(eps) : remote(eps[j])}}
        missEps == SelectSeq(eps, LAMBDA ep : ep.ip \notin DOMAIN lookup)
    IN  [ipToEp |-> [n \in nodes |->
                        SelectSeq(eps, LAMBDA ep : remote(ep) /\ lookup[ep.ip].nextHop = n)],
         miss   |-> IF missEps = <<>> THEN <<>>
                    ELSE <<[sname |-> sname, sinfo |-> sinfo, eps |-> missEps, nport |-> nport]>>]

\* lookup is the route table: a map from endpoint address to its route.
expandNodePorts(sname, sinfo, eps, nport, lookup) ==
    LET remote(ep) == /\ ep.ip \in DOMAIN lookup
                      /\ FlagWorkload \in lookup[ep.ip].flags
                      /\ FlagLocal \notin lookup[ep.ip].flags
        nodes   == {lookup[eps[i].ip].nextHop : i \in {j \in 1..Len(eps) : remote(eps[j])}}
        missEps == SelectSeq(eps, LAMBDA ep : ep.ip \notin DOMAIN lookup)
    IN  [ipToEp |-> [n \in nodes |->
                        SelectSeq(eps, LAMBDA ep : remote(ep) /\ lookup[ep.ip].nextHop = n)],
         miss   |-> IF missEps = <<>> THEN <<>>
                    ELSE <<[sname |-> sname, sinfo |-> sinfo, eps |-> missEps, nport |-> nport]>>]

applyExpandedNP(st, prev, sname, sinfo, eps, node, nport) ==
    LET skey == getSvcKey(sname, getSvcKeyExtra(svcTypeNodePortRemote, node))
        si   == [serviceInfoFromK8sServicePort(sinfo) EXCEPT !.clusterIP = node, !.port = nport]
    IN  applySvc(st, prev, skey, si, eps)

\* nodeOrder is the order in which "range ipToEp" visits the nodes.
expandAndApplyNodePorts(st, prev, sname, sinfo, eps, nport, lookup, nodeOrder) ==
    LET x  == expandNodePorts(sname, sinfo, eps, nport, lookup)
        s1 == FoldSeq(LAMBDA s, node :
                        IF node \in DOMAIN x.ipToEp
                        THEN applyExpandedNP(s, prev, sname, sinfo, x.ipToEp[node], node, nport)
                        ELSE s,
                      st, nodeOrder)
    IN  [s1 EXCEPT !.misses = @ \o x.miss]

(* ---------------------------------------------------------------------- *)
(* apply(): the body of the loop over state.SvcMap                         *)
(* ---------------------------------------------------------------------- *)
eligibleEps(state, sname) ==
    LET svc == state.SvcMap[sname]
        all == IF sname \in DOMAIN state.EpsMap THEN state.EpsMap[sname] ELSE <<>>
    IN  SelectSeq(all, LAMBDA ep :
            /\ ep.ready \/ ep.terminating
            /\ ShouldAppendTopologyAwareEndpoint(state.NodeZone, svc.hintsAnnotation, ep.zoneHints))

isPodNPIP_never(npip) == FALSE

isPodNPIP(npip) == ipFamily = 4 /\ npip = podNPIP

applyService(st, prev, state, sname, lookup, nodeOrder) ==
    LET svc == state.SvcMap[sname]
        eps == eligibleEps(state, sname)
        s1  == applySvc(st, prev, getSvcKey(sname, <<>>), svc, eps)
        s2  == FoldSeq(LAMBDA s, lbIP :
                         IF lbIP # ""
                         THEN applyDerived(s, sname, svcTypeLoadBalancer,
                                  [serviceInfoFromK8sServicePort(svc) EXCEPT !.clusterIP = lbIP])
                         ELSE s,
                       s1, svc.loadBalancerVIPs)
        s3  == FoldSeq(LAMBDA s, extIP :
                         applyDerived(s, sname, svcTypeExternalIP,
                             [serviceInfoFromK8sServicePort(svc) EXCEPT !.clusterIP = extIP]),
                       s2, svc.externalIPs)
        s4  == IF svc.nodePort = 0 THEN s3
               ELSE FoldSeq(LAMBDA s, npip :
                              IF svc.nodeLocalInternal /\ isPodNPIP(npip) THEN s
                              ELSE applyDerived(s, sname, svcTypeNodePort,
                                       [serviceInfoFromK8sServicePort(svc) EXCEPT
                                            !.clusterIP = npip, !.port = svc.nodePort]),
                            s3, nodePortIPs)
    IN  IF svc.nodePort # 0 /\ svc.nodeLocalInternal
        THEN expandAndApplyNodePorts(s4, prev, sname, svc, eps, svc.nodePort, lookup, nodeOrder)
        ELSE s4

\* svcOrder is the order in which "range state.SvcMap" visits the services.
applyCompute(nextID, prev, state, svcOrder, lookup, nodeOrder) ==
    FoldSeq(LAMBDA s, sname : applyService(s, prev, state, sname, lookup, nodeOrder),
            PassStart(nextID), svcOrder)

(* ---------------------------------------------------------------------- *)
(* Cold-start reconstruction                                               *)
(* ---------------------------------------------------------------------- *)
\* order is the order in which "range svcs" visits the services.
svcMapToIPPortProtoMap(svcs, order) ==
    FoldSeq(LAMBDA ref, key :
              LET svc   == svcs[key]
                  proto == ProtoV1ToInt(svc.protocol)
                  xref  == [svc |-> key, info |-> svc]
                  r1    == Put(ref, NewNATKey(svc.clusterIP, svc.port, proto), xref)
                  r2    == IF svc.nodePort = 0 THEN r1
                           ELSE FoldSeq(LAMBDA r, npIP : Put(r, NewNATKey(npIP, svc.nodePort, proto), xref),
                                        Put(r1, NewNATKey(svc.clusterIP, svc.nodePort, proto), xref),
                                        nodePortIPs)
              IN  FoldSeq(LAMBDA r, extIP : Put(r, NewNATKey(extIP, svc.port, proto), xref),
                          r2, svc.externalIPs),
            EmptyMap, order)

matchNP(bpfSvc, k8sSvc, k8sInfo) ==
    IF bpfSvc.port = k8sInfo.nodePort /\ bpfSvc.addr \in SeqToSet(nodePortIPs)
    THEN <<getSvcKey(k8sSvc, getSvcKeyExtra(svcTypeNodePort, bpfSvc.addr))>>
    ELSE <<>>

matchLBSrcIP(bpfSvc, k8sInfo) ==
    \/ bpfSvc.src = ZeroCIDR
    \/ /\ Len(k8sInfo.loadBalancerSourceRanges) # 0
       /\ \E i \in 1..Len(k8sInfo.loadBalancerSourceRanges) :
              /\ k8sInfo.loadBalancerSourceRanges[i] \notin V6CIDRs
              /\ k8sInfo.loadBalancerSourceRanges[i] = bpfSvc.src

\* The matching svcKey in a one-element sequence, <<>> for nil.
matchBpfSvc(bpfSvc, k8sSvc, k8sInfo) ==
    IF bpfSvc.port # k8sInfo.port THEN matchNP(bpfSvc, k8sSvc, k8sInfo)
    ELSE IF bpfSvc.addr = k8sInfo.clusterIP /\ bpfSvc.src = ZeroCIDR
         THEN <<getSvcKey(k8sSvc, <<>>)>>
    ELSE IF bpfSvc.addr \in SeqToSet(k8sInfo.externalIPs) /\ matchLBSrcIP(bpfSvc, k8sInfo)
         THEN <<getSvcKey(k8sSvc, getSvcKeyExtra(svcTypeExternalIP, bpfSvc.addr))>>
    ELSE IF /\ bpfSvc.addr # ""
            /\ bpfSvc.addr \in SeqToSet(k8sInfo.loadBalancerVIPs)
            /\ matchLBSrcIP(bpfSvc, k8sInfo)
         THEN <<getSvcKey(k8sSvc, getSvcKeyExtra(svcTypeLoadBalancer, bpfSvc.addr))>>
    ELSE matchNP(bpfSvc, k8sSvc, k8sInfo)

NewEndpointInfo(ip, port) == [ip |-> ip, port |-> port]

\* The id counter after a matched frontend with this id has been seen.
bumpNextSvcID(next, id) == IF id >= next THEN id + 1 ELSE next

\* The frontends of the dataplane cache that resolve to a service, each with
\* the svcKey it resolves to.
matchedFrontends(front, svcRef) ==
    [k \in {x \in (DOMAIN front) \cap (DOMAIN svcRef) :
                matchBpfSvc(x, svcRef[x].svc, svcRef[x].info) # <<>>} |->
        matchBpfSvc(k, svcRef[k].svc, svcRef[k].info)[1]]

\* The number of slots of the service read before the first missing one.
slotsRead(back, id, count) ==
    LET gap == CHOOSE i \in 0..Cardinality(DOMAIN back) :
                   /\ NewNATBackendKey(id, i) \notin DOMAIN back
                   /\ \A j \in 0..(i - 1) : NewNATBackendKey(id, j) \in DOMAIN back
    IN  IF gap < count THEN gap ELSE count

readEps(back, id, n) ==
    [i \in 1..n |-> NewEndpointInfo(back[NewNATBackendKey(id, i - 1)].addr,
                                    back[NewNATBackendKey(id, i - 1)].port)]

\* What the walk records for the matched frontends m.  Two frontends of the
\* cache resolve to the same svcKey only if they share address and port, so
\* the order of the walk does not show in the result.
recordPrev(prevSvc, prevEps, nextID, front, back, state, m) ==
    LET keys    == {m[k] : k \in DOMAIN m}
        of      == [sk \in keys |-> front[CHOOSE k \in DOMAIN m : m[k] = sk]]
        prims   == {sk \in keys : sk.extra = <<>>}
        withEps == {sk.sname : sk \in {p \in prims : of[p].count > 0}}
        ids     == {of[sk].id : sk \in keys}
    IN  [prevSvcMap |-> [sk \in (DOMAIN prevSvc) \cup keys |->
                            IF sk \in keys
                            THEN [id |-> of[sk].id, count |-> of[sk].count,
                                  localCount |-> of[sk].local, svc |-> state.SvcMap[sk.sname]]
                            ELSE prevSvc[sk]],
         prevEpsMap |-> [n \in (DOMAIN prevEps) \cup withEps |->
                            IF n \in withEps
                            THEN readEps(back, of[getSvcKey(n, <<>>)].id,
                                         slotsRead(back, of[getSvcKey(n, <<>>)].id,
                                                   of[getSvcKey(n, <<>>)].count))
                            ELSE prevEps[n]],
         nextSvcID  |-> bumpNextSvcID(nextID, MaxOf(ids, -1)),
         recorded   |-> ids,
         inconsistent |-> \E sk \in prims : slotsRead(back, of[sk].id, of[sk].count) < of[sk].count]

startupBuildPrev(prevSvc, prevEps, nextID, front, back, state, order) ==
    recordPrev(prevSvc, prevEps, nextID, front, back, state,
               matchedFrontends(front, svcMapToIPPortProtoMap(state.SvcMap, order)))

(* ---------------------------------------------------------------------- *)
(* Typed caching map: the delta between the desired and dataplane caches   *)
(* ---------------------------------------------------------------------- *)
PendingDeletions(desired, dataplane) == (DOMAIN dataplane) \ (DOMAIN desired)

PendingUpdates(desired, dataplane) ==
    {k \in DOMAIN desired : k \notin DOMAIN dataplane \/ dataplane[k] # desired[k]}

(* ---------------------------------------------------------------------- *)
(* Affinity sweeper                                                        *)
(* ---------------------------------------------------------------------- *)
stickyDelete_noExpiry(k, v, svcs, eps, now) ==
    \/ k.fe \notin DOMAIN svcs
    \/ svcs[k.fe].id \notin DOMAIN eps
    \/ v.backend \notin eps[svcs[k.fe].id]

stickyDelete_expiresAtTimeout(k, v, svcs, eps, now) ==
    \/ k.fe \notin DOMAIN svcs
    \/ svcs[k.fe].id \notin DOMAIN eps
    \/ v.backend \notin eps[svcs[k.fe].id]
    \/ now - v.ts >= svcs[k.fe].timeo

\* Whether cleanupSticky's callback answers IterDelete for the record k -> v.
stickyDelete(k, v, svcs, eps, now) ==
    \/ k.fe \notin DOMAIN svcs
    \/ svcs[k.fe].id \notin DOMAIN eps
    \/ v.backend \notin eps[svcs[k.fe].id]
    \/ now - v.ts > svcs[k.fe].timeo

cleanupSticky(aff, svcs, eps, now) ==
    [k \in {x \in DOMAIN aff : ~stickyDelete(x, aff[x], svcs, eps, now)} |-> aff[k]]

(* ---------------------------------------------------------------------- *)
(* Inputs: services, endpoints, desired states, route tables, affinity     *)
(* ---------------------------------------------------------------------- *)
BaseSvc ==
    [clusterIP |-> "10.0.0.1", port |-> 80, protocol |-> "TCP", nodePort |-> 0,
     sessionAffinityType |-> "None", stickyMaxAgeSeconds |-> 0,
     externalIPs |-> <<>>, loadBalancerVIPs |-> <<>>, loadBalancerSourceRanges |-> <<>>,
     healthCheckNodePort |-> 0, nodeLocalExternal |-> FALSE, nodeLocalInternal |-> FALSE,
     hintsAnnotation |-> "", excludeService |-> FALSE, reapTerminatingUDP |-> FALSE]

\* A: cluster address 10.0.0.1, client-address affinity, hints annotation.
SvcA == [BaseSvc EXCEPT !.sessionAffinityType = "ClientIP", !.stickyMaxAgeSeconds = 1,
                        !.hintsAnnotation = "auto"]

\* A with the external address 10.0.0.2.
SvcAExt == [SvcA EXCEPT !.externalIPs = <<"10.0.0.2">>]

\* A as a node-port service with internal-local policy.
SvcANodePort == [SvcA EXCEPT !.nodePort = 31000, !.nodeLocalInternal = TRUE]

\* B: cluster address 10.0.0.2.
SvcB == [BaseSvc EXCEPT !.clusterIP = "10.0.0.2"]

Endpoint(ip, isLocal, ready, terminating, zoneHints) ==
    [ip |-> ip, port |-> 8080, isLocal |-> isLocal, ready |-> ready,
     terminating |-> terminating, zoneHints |-> zoneHints]

EpsA1 == <<Endpoint("2.0.0.2", FALSE, TRUE, FALSE, {}),
           Endpoint("2.0.0.1", TRUE, TRUE, FALSE, {})>>

\* 2.0.0.1 gone, a terminating local endpoint and an endpoint hinted for
\* another zone added.
EpsA2 == <<Endpoint("2.0.0.2", FALSE, TRUE, FALSE, {}),
           Endpoint("2.0.0.4", TRUE, FALSE, TRUE, {}),
           Endpoint("2.0.0.5", FALSE, TRUE, FALSE, {"z2"})>>

\* EpsA1 and an endpoint on a node the first route table does not know.
EpsA3 == EpsA1 \o <<Endpoint("2.0.0.3", FALSE, TRUE, FALSE, {})>>

\* 2.0.0.9 has no route in any route table.
EpsA4 == EpsA3 \o <<Endpoint("2.0.0.9", FALSE, TRUE, FALSE, {})>>

EpsB == <<Endpoint("2.0.0.6", FALSE, TRUE, FALSE, {})>>

\* The endpoint of B terminating and no longer ready.
EpsBGone == <<Endpoint("2.0.0.6", FALSE, FALSE, TRUE, {})>>

\* U: a UDP service that reaps its terminating endpoints.
SvcU == [BaseSvc EXCEPT !.clusterIP = "10.0.0.3", !.protocol = "UDP", !.reapTerminatingUDP = TRUE]

EpsU == <<Endpoint("2.0.0.7", FALSE, TRUE, FALSE, {}),
          Endpoint("2.0.0.8", FALSE, FALSE, TRUE, {})>>

\* L: a load-balancer service with the VIP 10.1.0.1 and the external
\* address 10.2.0.1, reachable from one IPv4 and one IPv6 source range.
SvcLB == [BaseSvc EXCEPT !.clusterIP = "10.0.0.4", !.loadBalancerVIPs = <<"10.1.0.1">>,
                         !.externalIPs = <<"10.2.0.1">>,
                         !.loadBalancerSourceRanges = <<"172.16.0.0/16", "2001:db8::/32">>]

\* L without source ranges and external address, with a node port and the
\* cluster traffic policy.
SvcLBOpen == [BaseSvc EXCEPT !.clusterIP = "10.0.0.4", !.loadBalancerVIPs = <<"10.1.0.1">>,
                             !.nodePort = 31001]

\* A ready local endpoint and a local endpoint that is terminating.
EpsL == <<Endpoint("2.0.0.1", TRUE, TRUE, FALSE, {}),
          Endpoint("2.0.0.4", TRUE, FALSE, TRUE, {})>>

DPSyncerState(svcs, eps) == [SvcMap |-> svcs, EpsMap |-> eps, NodeZone |-> "z1"]

\* X: an external address, a load-balancer VIP and a node port, with the
\* external traffic policy local.
SvcXLocal == [BaseSvc EXCEPT !.clusterIP = "10.0.0.5", !.externalIPs = <<"10.2.0.2">>,
                             !.loadBalancerVIPs = <<"10.1.0.2">>, !.nodePort = 31002,
                             !.nodeLocalExternal = TRUE]

\* L with the IPv6 source range only: no range of the syncer's family.
SvcLBOther == [SvcLB EXCEPT !.loadBalancerSourceRanges = <<"2001:db8::/32">>]

\* The desired states Apply is called with.
States ==
    <<DPSyncerState([A |-> SvcA], [A |-> EpsA1]),
      DPSyncerState([A |-> SvcA], [A |-> EpsA2]),
      DPSyncerState([A |-> SvcAExt], [A |-> EpsA1]),
      DPSyncerState([A |-> SvcA, B |-> SvcB], [A |-> EpsA1, B |-> EpsB]),
      DPSyncerState([A |-> SvcANodePort], [A |-> EpsA3]),
      DPSyncerState([B |-> SvcB, U |-> SvcU], [B |-> EpsBGone, U |-> EpsU]),
      DPSyncerState([L |-> SvcLB], [L |-> EpsL]),
      DPSyncerState([L |-> SvcLBOpen], [L |-> EpsL]),
      DPSyncerState([A |-> SvcANodePort], [A |-> EpsA4]),
      DPSyncerState([X |-> SvcXLocal], [X |-> EpsL]),
      DPSyncerState([L |-> SvcLBOther], [L |-> EpsL])>>

\* The desired states the owner applies: in the specification of the sync
\* itself, and in the one with Stop and the conntrack scanner.
Menu == {1, 2, 3, 4, 5}

ConcMenu == {2, 5, 6}

\* The states with frontends at load-balancer, external and node-port
\* addresses.
ExtMenu == {5, 7, 8}

Route(flags, nextHop) == [flags |-> flags, nextHop |-> nextHop]

\* Route tables: 2.0.0.3 has no route in the first and a remote-workload
\* route in the second; in the third 2.0.0.2 has moved to the node of
\* 2.0.0.3.
RouteTables ==
    <<[x \in {"2.0.0.1", "2.0.0.2"} |->
          IF x = "2.0.0.1" THEN Route({FlagWorkload, FlagLocal}, "192.168.1.10")
          ELSE Route({FlagWorkload}, "192.168.1.21")],
      [x \in {"2.0.0.1", "2.0.0.2", "2.0.0.3"} |->
          IF x = "2.0.0.1" THEN Route({FlagWorkload, FlagLocal}, "192.168.1.10")
          ELSE IF x = "2.0.0.2" THEN Route({FlagWorkload}, "192.168.1.21")
          ELSE Route({FlagWorkload}, "192.168.1.22")],
      [x \in {"2.0.0.1", "2.0.0.2", "2.0.0.3"} |->
          IF x = "2.0.0.1" THEN Route({FlagWorkload, FlagLocal}, "192.168.1.10")
          ELSE Route({FlagWorkload}, "192.168.1.22")]>>

\* Lookups tried besides the route table: 2.0.0.2 behind a route that is no
\* workload route and 2.0.0.3 on a remote node, and no route at all.
OtherLookups ==
    {[x \in {"2.0.0.2", "2.0.0.3"} |->
         IF x = "2.0.0.2" THEN Route({}, "192.168.1.21") ELSE Route({FlagWorkload}, "192.168.1.22")],
     EmptyMap}

\* The remote next-hop nodes of the route tables.
Nodes == {"192.168.1.21", "192.168.1.22"}

AffinityKey(client, addr, port, proto) ==
    [client |-> client, fe |-> [addr |-> addr, port |-> port, proto |-> proto]]

AffinityValue(addr, port, ts) == [backend |-> NewNATBackendValue(addr, port), ts |-> ts]

\* The affinity records the packet path has left in the kernel: one for a
\* backend of A, one for an address that is no backend, one for no service.
AffinityAtBoot ==
    LET k1 == AffinityKey("c1", "10.0.0.1", 80, 6)
        k2 == AffinityKey("c2", "10.0.0.1", 80, 6)
        k3 == AffinityKey("c1", "10.0.0.9", 80, 6)
    IN  [k \in {k1, k2, k3} |->
            IF k = k1 THEN AffinityValue("2.0.0.1", 8080, 0)
            ELSE IF k = k2 THEN AffinityValue("2.0.0.9", 8080, 1)
            ELSE AffinityValue("2.0.0.1", 8080, 1)]

\* Kernel maps as a syncer may find them at its first Apply when something
\* else wrote them: the frontend of A with two backends and a stray frontend
\* of no service, with the second slot of A missing in the first case and
\* all slots there in the second.
KernelsAtBoot ==
    LET front == [k \in {NewNATKey("10.0.0.1", 80, 6), NewNATKey("10.0.0.9", 80, 6)} |->
                     IF k.addr = "10.0.0.1" THEN NewNATValue(3, 2, 1, 1) ELSE NewNATValue(7, 0, 0, 0)]
        slot0 == [k \in {NewNATBackendKey(3, 0)} |-> NewNATBackendValue("2.0.0.1", 8080)]
    IN  <<[front |-> front, back |-> slot0],
          [front |-> front, back |-> Put(slot0, NewNATBackendKey(3, 1), NewNATBackendValue("2.0.0.2", 8080))]>>

(* ---------------------------------------------------------------------- *)
(* State                                                                   *)
(* ---------------------------------------------------------------------- *)
VARIABLES
    kFront, kBack, kAff,        \* the kernel maps: frontend, backend, affinity
    dpFront, dpBack,            \* bpfSvcs / bpfEps: dataplane caches
    desFront, desBack,          \* bpfSvcs / bpfEps: desired caches
    nextSvcID, newSvcMap, newEpsMap, prevSvcMap, prevEpsMap,
    synced, stickySvcs, stickyEps,
    mapsLck,                    \* "free", or the holder: "apply", "fixup", "scan"
    expFixupStop,               \* "nil", or the channel: "open", "closed"
    fixup,                      \* the fix-up goroutine
    rt,                         \* the route table
    ktime,                      \* the monotonic clock
    pc, phase, curD, expNPMisses, lastErr,   \* the Apply call in progress
    nApplies, nRestarts, nFails,             \* budget used
    hist,                       \* history of the calls, for the properties
    stop,                       \* the global stop channel: "open", "closed"
    stopOnce,                   \* stopOnce has run
    stopPc,                     \* the Stop call in progress: "idle", "wait"
    nStops,                     \* Stop calls made
    triggerFn,                  \* "nil", or "set"
    triggered,                  \* the trigger was invoked and no Apply has started since
    activeSvcsMap, activeEpsMap \* the views of a conntrack scan; a nil map reads as empty

kernelVars == <<kFront, kBack, kAff>>
cacheVars  == <<dpFront, dpBack, desFront, desBack>>
mapVars    == <<nextSvcID, newSvcMap, newEpsMap, prevSvcMap, prevEpsMap>>
stickyVars == <<stickySvcs, stickyEps>>
taskVars   == <<expFixupStop, fixup>>
callVars   == <<pc, phase, curD, expNPMisses, lastErr>>
budgetVars == <<nApplies, nRestarts, nFails>>
stopVars   == <<stop, stopOnce, stopPc, nStops>>
trigVars   == <<triggerFn, triggered>>
scanVars   == <<activeSvcsMap, activeEpsMap>>
apiVars    == <<stopVars, trigVars, scanVars>>

vars == <<kFront, kBack, kAff, dpFront, dpBack, desFront, desBack,
          nextSvcID, newSvcMap, newEpsMap, prevSvcMap, prevEpsMap,
          synced, stickySvcs, stickyEps, mapsLck, expFixupStop, fixup, rt, ktime,
          pc, phase, curD, expNPMisses, lastErr, nApplies, nRestarts, nFails, hist,
          stop, stopOnce, stopPc, nStops, triggerFn, triggered, activeSvcsMap, activeEpsMap>>

NoTask == [state |-> "none", misses |-> <<>>, wake |-> FALSE]

\* close(ch): closing a closed or a nil channel panics.
close(ch) == IF ch = "open" THEN "closed" ELSE "panic"

\* expFixupWg.Wait() returns: no launched goroutine is left that has not
\* called Done.
expFixupWgWait_noWait(task) == TRUE

expFixupWgWait(task) == task.state \in {"none", "exited"}

\* hist: lastD/lastOK, the state and outcome of the last Apply that returned;
\* rtDirty, the route table changed since the last sync pass; restarted, the
\* syncer was constructed since the last Apply returned; same, the pass in
\* progress repeats a successful Apply of the same state with the route
\* table unchanged; afterRestart, and a restart lies between the two;
\* maxSeen, the largest id this syncer issued or recorded so far (-1: none);
\* issued, the ids newSvcID returned in the pass in progress.
HistInit ==
    [lastD |-> 0, lastOK |-> FALSE, rtDirty |-> FALSE, restarted |-> FALSE,
     same |-> FALSE, afterRestart |-> FALSE, maxSeen |-> -1, issued |-> <<>>]

\* NewSyncer: the state of a freshly constructed syncer.
NewSyncer ==
    /\ dpFront = EmptyMap /\ dpBack = EmptyMap /\ desFront = EmptyMap /\ desBack = EmptyMap
    /\ nextSvcID = 0
    /\ newSvcMap = EmptyMap /\ newEpsMap = EmptyMap
    /\ prevSvcMap = EmptyMap /\ prevEpsMap = EmptyMap
    /\ synced = FALSE
    /\ stickySvcs = EmptyMap /\ stickyEps = EmptyMap
    /\ mapsLck = "free"
    /\ expFixupStop = "nil"
    /\ fixup = NoTask
    /\ pc = "idle" /\ phase = 0 /\ curD = 0 /\ expNPMisses = <<>> /\ lastErr = FALSE
    /\ stop = "open" /\ stopOnce = FALSE /\ stopPc = "idle"
    /\ triggerFn = "nil" /\ triggered = FALSE
    /\ activeSvcsMap = EmptyMap /\ activeEpsMap = EmptyMap

Init ==
    /\ kFront = EmptyMap /\ kBack = EmptyMap
    /\ kAff = AffinityAtBoot
    /\ rt = RouteTables[1]
    /\ ktime = 0
    /\ NewSyncer
    /\ nApplies = 0 /\ nRestarts = 0 /\ nFails = 0 /\ nStops = 0
    /\ hist = HistInit

(* ---------------------------------------------------------------------- *)
(* Apply                                                                   *)
(* ---------------------------------------------------------------------- *)
\* Apply up to mapsLck.Lock(): startupSync while not synced, otherwise
\* StopExpandNPFixup up to its expFixupWg.Wait().
startupSync(b) ==
    /\ dpFront' = kFront
    /\ dpBack' = kBack
    /\ prevSvcMap' = b.prevSvcMap
    /\ prevEpsMap' = b.prevEpsMap
    /\ nextSvcID' = b.nextSvcID
    /\ hist' = [hist EXCEPT !.maxSeen = MaxOf(b.recorded \cup {@}, @)]

ApplyCall(d, order) ==
    /\ pc = "idle"
    /\ nApplies < MaxApplies
    /\ nApplies' = nApplies + 1
    /\ curD' = d
    /\ IF ~synced
       THEN /\ startupSync(startupBuildPrev(prevSvcMap, prevEpsMap, nextSvcID, kFront, kBack,
                                            States[d], order))
            /\ pc' = "lock"
            /\ UNCHANGED expFixupStop
       ELSE /\ IF expFixupStop # "nil"
               THEN expFixupStop' = close(expFixupStop) /\ pc' = "stopfixup"
               ELSE expFixupStop' = expFixupStop /\ pc' = "lock"
            /\ UNCHANGED <<dpFront, dpBack, prevSvcMap, prevEpsMap, nextSvcID, hist>>
    /\ ktime' = ktime + 1
    /\ triggered' = FALSE
    /\ UNCHANGED <<kernelVars, desFront, desBack, newSvcMap, newEpsMap, synced, stickyVars,
                   mapsLck, fixup, rt, phase, expNPMisses, lastErr, nRestarts, nFails,
                   stopVars, triggerFn, scanVars>>

\* StopExpandNPFixup after expFixupWg.Wait() has returned.
StopExpandNPFixupReturn ==
    /\ pc = "stopfixup"
    /\ expFixupWgWait(fixup)
    /\ expFixupStop' = "nil"
    /\ fixup' = IF fixup.state = "exited" THEN NoTask ELSE fixup
    /\ pc' = "lock"
    /\ UNCHANGED <<kernelVars, cacheVars, mapVars, synced, stickyVars, mapsLck, rt, ktime,
                   phase, curD, expNPMisses, lastErr, budgetVars, hist, apiVars>>

\* The order of apply()'s partial-apply calls.
ApplyPhases_frontendsBeforeBackends ==
    <<"bpfSvcs.ApplyDeletionsOnly", "bpfSvcs.ApplyUpdatesOnly",
      "bpfEps.ApplyUpdatesOnly", "bpfEps.ApplyDeletionsOnly">>

ApplyPhases_backendsReapedFirst ==
    <<"bpfEps.ApplyDeletionsOnly", "bpfSvcs.ApplyDeletionsOnly",
      "bpfEps.ApplyUpdatesOnly", "bpfSvcs.ApplyUpdatesOnly">>

ApplyPhases_noBackendReap ==
    <<"bpfSvcs.ApplyDeletionsOnly", "bpfEps.ApplyUpdatesOnly", "bpfSvcs.ApplyUpdatesOnly">>

ApplyPhases_updatesOnly == <<"bpfEps.ApplyUpdatesOnly", "bpfSvcs.ApplyUpdatesOnly">>

ApplyPhases_noFrontendReap ==
    <<"bpfEps.ApplyUpdatesOnly", "bpfSvcs.ApplyUpdatesOnly", "bpfEps.ApplyDeletionsOnly">>

ApplyPhases ==
    <<"bpfSvcs.ApplyDeletionsOnly", "bpfEps.ApplyUpdatesOnly",
      "bpfSvcs.ApplyUpdatesOnly", "bpfEps.ApplyDeletionsOnly">>

\* The result of the sync pass kept in the syncer.
apply(st) ==
    /\ desFront' = st.front
    /\ desBack' = st.back
    /\ newSvcMap' = st.newSvcMap
    /\ newEpsMap' = st.newEpsMap
    /\ nextSvcID' = st.nextSvcID
    /\ stickySvcs' = st.stickySvcs
    /\ stickyEps' = st.stickyEps
    /\ expNPMisses' = st.misses
    /\ hist' = [hist EXCEPT
                  !.same = hist.lastOK /\ hist.lastD = curD /\ ~hist.rtDirty,
                  !.afterRestart = hist.restarted,
                  !.rtDirty = FALSE,
                  !.issued = st.issued,
                  !.maxSeen = MaxOf(SeqToSet(st.issued) \cup {@}, @)]

\* Apply from mapsLck.Lock() to the first partial-apply call of apply(): the
\* promotion of the new maps and the sync pass over the desired state.
ApplyLock(svcOrder, nodeOrder) ==
    /\ pc = "lock"
    /\ mapsLck = "free"
    /\ mapsLck' = "apply"
    /\ prevSvcMap' = IF synced THEN newSvcMap ELSE prevSvcMap
    /\ prevEpsMap' = IF synced THEN newEpsMap ELSE prevEpsMap
    /\ apply(applyCompute(nextSvcID, IF synced THEN newSvcMap ELSE prevSvcMap, States[curD],
                          svcOrder, rt, nodeOrder))
    /\ pc' = "write"
    /\ phase' = 1
    /\ UNCHANGED <<kernelVars, dpFront, dpBack, synced, taskVars, rt, ktime, curD, lastErr,
                   budgetVars, apiVars>>

\* synced when Apply returns: set after apply() has returned nil, left alone
\* when it has returned an error.
syncedAfterApply_always(err, was) == TRUE

\* synced dropped again by an Apply whose apply() has returned an error.
syncedAfterApply_resetOnError(err, was) == ~err

syncedAfterApply(err, was) == IF err THEN was ELSE TRUE

\* apply() returning the error of a partial-apply call, and Apply returning
\* it: the deferred functions drop the sticky maps and unlock.
ReturnErr ==
    /\ nFails < MaxFailures
    /\ nFails' = nFails + 1
    /\ pc' = "idle"
    /\ phase' = 0
    /\ lastErr' = TRUE
    /\ mapsLck' = "free"
    /\ stickySvcs' = EmptyMap /\ stickyEps' = EmptyMap
    /\ expNPMisses' = <<>>
    /\ synced' = syncedAfterApply(TRUE, synced)
    /\ UNCHANGED <<mapVars, taskVars, rt, ktime, curD, nApplies, nRestarts, apiVars>>

Wrote ==
    UNCHANGED <<mapVars, synced, stickyVars, mapsLck, taskVars, rt, ktime, callVars,
                   budgetVars, hist, apiVars>>

Failed ==
    hist' = [hist EXCEPT !.lastD = curD, !.lastOK = FALSE, !.restarted = FALSE, !.issued = <<>>]

InPhase(name) == pc = "write" /\ ApplyPhases[phase] = name

\* One kernel delete of bpfSvcs.ApplyDeletionsOnly().
DeleteFrontend(k, ok) ==
    /\ InPhase("bpfSvcs.ApplyDeletionsOnly")
    /\ k \in PendingDeletions(desFront, dpFront)
    /\ IF ok
       THEN kFront' = Del(kFront, k) /\ dpFront' = Del(dpFront, k) /\ Wrote
       ELSE ReturnErr /\ Failed /\ UNCHANGED <<kFront, dpFront>>
    /\ UNCHANGED <<kBack, kAff, dpBack, desFront, desBack>>

\* One kernel update of bpfEps.ApplyUpdatesOnly().
UpdateBackend(k, ok) ==
    /\ InPhase("bpfEps.ApplyUpdatesOnly")
    /\ k \in PendingUpdates(desBack, dpBack)
    /\ IF ok
       THEN kBack' = Put(kBack, k, desBack[k]) /\ dpBack' = Put(dpBack, k, desBack[k]) /\ Wrote
       ELSE ReturnErr /\ Failed /\ UNCHANGED <<kBack, dpBack>>
    /\ UNCHANGED <<kFront, kAff, dpFront, desFront, desBack>>

\* One kernel update of bpfSvcs.ApplyUpdatesOnly().
UpdateFrontend(k, ok) ==
    /\ InPhase("bpfSvcs.ApplyUpdatesOnly")
    /\ k \in PendingUpdates(desFront, dpFront)
    /\ IF ok
       THEN kFront' = Put(kFront, k, desFront[k]) /\ dpFront' = Put(dpFront, k, desFront[k]) /\ Wrote
       ELSE ReturnErr /\ Failed /\ UNCHANGED <<kFront, dpFront>>
    /\ UNCHANGED <<kBack, kAff, dpBack, desFront, desBack>>

\* One kernel delete of bpfEps.ApplyDeletionsOnly().
DeleteBackend(k, ok) ==
    /\ InPhase("bpfEps.ApplyDeletionsOnly")
    /\ k \in PendingDeletions(desBack, dpBack)
    /\ IF ok
       THEN kBack' = Del(kBack, k) /\ dpBack' = Del(dpBack, k) /\ Wrote
       ELSE ReturnErr /\ Failed /\ UNCHANGED <<kBack, dpBack>>
    /\ UNCHANGED <<kFront, kAff, dpFront, desFront, desBack>>

PhasePending(name) ==
    CASE name = "bpfSvcs.ApplyDeletionsOnly" -> PendingDeletions(desFront, dpFront)
      [] name = "bpfEps.ApplyUpdatesOnly"    -> PendingUpdates(desBack, dpBack)
      [] name = "bpfSvcs.ApplyUpdatesOnly"   -> PendingUpdates(desFront, dpFront)
      [] name = "bpfEps.ApplyDeletionsOnly"  -> PendingDeletions(desBack, dpBack)

\* A partial-apply call returning nil: apply() goes on to the next one.
PartialApplyReturn ==
    /\ pc = "write"
    /\ PhasePending(ApplyPhases[phase]) = {}
    /\ IF phase < Len(ApplyPhases)
       THEN phase' = phase + 1 /\ pc' = pc
       ELSE phase' = 0 /\ pc' = "finish"
    /\ UNCHANGED <<kernelVars, cacheVars, mapVars, synced, stickyVars, mapsLck, taskVars, rt,
                   ktime, curD, expNPMisses, lastErr, budgetVars, hist, apiVars>>

\* runExpandNPFixup up to the go statement.
launchedFixup(misses, task) ==
    IF Len(misses) = 0 THEN task ELSE [state |-> "waitlock", misses |-> misses, wake |-> FALSE]

\* runExpandNPFixup: the stop channel of the launch; the channel of a task
\* still registered is closed first.
launchedStop(misses, ch) ==
    IF Len(misses) = 0 THEN ch
    ELSE IF ch # "nil" /\ close(ch) = "panic" THEN "panic"
    ELSE "open"

\* The end of a pass whose writes all succeeded: runExpandNPFixup, synced,
\* cleanupSticky with the clock reading now, then the deferred functions.
ApplyFinish(affOK) ==
    /\ pc = "finish"
    /\ fixup' = launchedFixup(expNPMisses, fixup)
    /\ expFixupStop' = launchedStop(expNPMisses, expFixupStop)
    /\ synced' = syncedAfterApply(FALSE, synced)
    /\ IF affOK
       THEN /\ kAff' = cleanupSticky(kAff, stickySvcs, stickyEps, ktime)
            /\ lastErr' = FALSE
            /\ nFails' = nFails
       ELSE /\ nFails < MaxFailures
            /\ nFails' = nFails + 1
            /\ kAff' = kAff
            /\ lastErr' = TRUE
    /\ hist' = [hist EXCEPT !.lastD = curD, !.lastOK = affOK, !.restarted = FALSE, !.issued = <<>>]
    /\ stickySvcs' = EmptyMap /\ stickyEps' = EmptyMap
    /\ expNPMisses' = <<>>
    /\ mapsLck' = "free"
    /\ pc' = "idle"
    /\ UNCHANGED <<kFront, kBack, cacheVars, mapVars, rt, ktime, phase, curD, nApplies,
                   nRestarts, apiVars>>

(* ---------------------------------------------------------------------- *)
(* The fix-up goroutine                                                    *)
(* ---------------------------------------------------------------------- *)
FixupLock_noLock ==
    /\ fixup.state = "waitlock"
    /\ mapsLck' = mapsLck
    /\ fixup' = [fixup EXCEPT !.state = "running", !.wake = TRUE]
    /\ UNCHANGED <<kernelVars, cacheVars, mapVars, synced, stickyVars, expFixupStop, rt, ktime,
                   callVars, budgetVars, hist, apiVars>>

\* s.mapsLck.Lock() at the head of the goroutine; the first pass of
\* WaitAfter runs right away.
FixupLock ==
    /\ fixup.state = "waitlock"
    /\ mapsLck = "free"
    /\ mapsLck' = "fixup"
    /\ fixup' = [fixup EXCEPT !.state = "running", !.wake = TRUE]
    /\ UNCHANGED <<kernelVars, cacheVars, mapVars, synced, stickyVars, expFixupStop, rt, ktime,
                   callVars, budgetVars, hist, apiVars>>

\* The misses that remain after one pass of the WaitAfter callback.
fixupAgain(misses, lookup) ==
    FoldSeq(LAMBDA again, m : again \o expandNodePorts(m.sname, m.sinfo, m.eps, m.nport, lookup).miss,
            <<>>, misses)

\* missesChanged of the callback: some miss is resolved, or is left with
\* other endpoints.
missesChanged_never(misses, lookup) == FALSE

missesChanged_resolvedOnly(misses, lookup) ==
    \E i \in 1..Len(misses) :
        expandNodePorts(misses[i].sname, misses[i].sinfo, misses[i].eps, misses[i].nport,
                        lookup).miss = <<>>

missesChanged(misses, lookup) ==
    \E i \in 1..Len(misses) :
        \/ expandNodePorts(misses[i].sname, misses[i].sinfo, misses[i].eps, misses[i].nport,
                           lookup).miss = <<>>
        \/ expandNodePorts(misses[i].sname, misses[i].sinfo, misses[i].eps, misses[i].nport,
                           lookup).miss[1].eps # misses[i].eps

\* The NodePortRemote keys of the nodes that the misses resolve to.
resolvedRemoteKeys(misses, lookup) ==
    UNION {{getSvcKey(misses[i].sname, getSvcKeyExtra(svcTypeNodePortRemote, n)) :
               n \in DOMAIN expandNodePorts(misses[i].sname, misses[i].sinfo, misses[i].eps,
                                            misses[i].nport, lookup).ipToEp} :
           i \in 1..Len(misses)}

FixupPass_appliesExpansion ==
    /\ fixup.state = "running"
    /\ fixup.wake
    /\ triggered' = (triggered \/ (missesChanged(fixup.misses, rt) /\ triggerFn # "nil"))
    /\ LET again == fixupAgain(fixup.misses, rt)
       IN  IF Len(again) = 0
           THEN fixup' = [state |-> "exited", misses |-> <<>>, wake |-> FALSE] /\ mapsLck' = "free"
           ELSE fixup' = [fixup EXCEPT !.misses = again, !.wake = FALSE] /\ mapsLck' = mapsLck
    /\ newSvcMap' = [sk \in DOMAIN newSvcMap \cup resolvedRemoteKeys(fixup.misses, rt) |->
                        IF sk \in DOMAIN newSvcMap THEN newSvcMap[sk]
                        ELSE [id |-> nextSvcID, count |-> 1, localCount |-> 0,
                              svc |-> fixup.misses[1].sinfo]]
    /\ UNCHANGED <<kernelVars, cacheVars, nextSvcID, newEpsMap, prevSvcMap, prevEpsMap, synced,
                   stickyVars, expFixupStop, rt, ktime, callVars, budgetVars, hist, stopVars,
                   triggerFn, scanVars>>

FixupPass_exitsOnTrigger ==
    /\ fixup.state = "running"
    /\ fixup.wake
    /\ triggered' = (triggered \/ (missesChanged(fixup.misses, rt) /\ triggerFn # "nil"))
    /\ LET again == fixupAgain(fixup.misses, rt)
       IN  IF Len(again) = 0 \/ (missesChanged(fixup.misses, rt) /\ triggerFn # "nil")
           THEN fixup' = [state |-> "exited", misses |-> <<>>, wake |-> FALSE] /\ mapsLck' = "free"
           ELSE fixup' = [fixup EXCEPT !.misses = again, !.wake = FALSE] /\ mapsLck' = mapsLck
    /\ UNCHANGED <<kernelVars, cacheVars, mapVars, synced, stickyVars, expFixupStop, rt, ktime,
                   callVars, budgetVars, hist, stopVars, triggerFn, scanVars>>

\* One pass of the callback; the goroutine returns when no miss is left.
FixupPass ==
    /\ fixup.state = "running"
    /\ fixup.wake
    /\ triggered' = (triggered \/ (missesChanged(fixup.misses, rt) /\ triggerFn # "nil"))
    /\ LET again == fixupAgain(fixup.misses, rt)
       IN  IF Len(again) = 0
           THEN fixup' = [state |-> "exited", misses |-> <<>>, wake |-> FALSE] /\ mapsLck' = "free"
           ELSE fixup' = [fixup EXCEPT !.misses = again, !.wake = FALSE] /\ mapsLck' = mapsLck
    /\ UNCHANGED <<kernelVars, cacheVars, mapVars, synced, stickyVars, expFixupStop, rt, ktime,
                   callVars, budgetVars, hist, stopVars, triggerFn, scanVars>>

\* The monitor goroutine cancels the context: either stop channel is closed.
ctxCancelled_perLaunchOnly(launchStop, globalStop) == launchStop = "closed"

ctxCancelled(launchStop, globalStop) == launchStop = "closed" \/ globalStop = "closed"

\* The context is cancelled: WaitAfter returns and the goroutine returns.
FixupCancelled ==
    /\ fixup.state = "running"
    /\ ctxCancelled(expFixupStop, stop)
    /\ fixup' = [state |-> "exited", misses |-> <<>>, wake |-> FALSE]
    /\ mapsLck' = "free"
    /\ UNCHANGED <<kernelVars, cacheVars, mapVars, synced, stickyVars, expFixupStop, rt, ktime,
                   callVars, budgetVars, hist, apiVars>>

HasSynced == synced

(* ---------------------------------------------------------------------- *)
(* SetTriggerFn, Stop                                                      *)
(* ---------------------------------------------------------------------- *)
SetTriggerFn ==
    /\ pc = "idle"
    /\ triggerFn = "nil"
    /\ triggerFn' = "set"
    /\ UNCHANGED <<kernelVars, cacheVars, mapVars, synced, stickyVars, mapsLck, taskVars, rt,
                   ktime, callVars, budgetVars, hist, stopVars, triggered, scanVars>>

\* What stopOnce.Do runs of its function: nothing once it has run.
stopOnceDo_always(once) == TRUE

stopOnceDo(once) == ~once

\* Stop up to expFixupWg.Wait().
Stop ==
    /\ nStops < MaxStops
    /\ nStops' = nStops + 1
    /\ IF stopOnceDo(stopOnce)
       THEN stopOnce' = TRUE /\ stop' = close(stop) /\ stopPc' = "wait"
       ELSE UNCHANGED <<stopOnce, stop, stopPc>>
    /\ UNCHANGED <<kernelVars, cacheVars, mapVars, synced, stickyVars, mapsLck, taskVars, rt,
                   ktime, callVars, budgetVars, hist, trigVars, scanVars>>

\* Stop after expFixupWg.Wait() has returned.
StopReturn ==
    /\ stopPc = "wait"
    /\ expFixupWgWait(fixup)
    /\ stopPc' = "idle"
    /\ UNCHANGED <<kernelVars, cacheVars, mapVars, synced, stickyVars, mapsLck, taskVars, rt,
                   ktime, callVars, budgetVars, hist, stop, stopOnce, nStops, trigVars, scanVars>>

(* ---------------------------------------------------------------------- *)
(* Conntrack query surface                                                 *)
(* ---------------------------------------------------------------------- *)
servicePortToIPPortProto(sp) ==
    [addr |-> sp.clusterIP, port |-> sp.port, proto |-> ProtoV1ToInt(sp.protocol)]

NewIPPort(ip, port) == [ip |-> ip, port |-> port]

addActiveEps_noReap(act, id, svc, eps) ==
    [svcs |-> Put(act.svcs, servicePortToIPPortProto(svc), id),
     eps  |-> IF Len(eps) = 0 THEN act.eps
              ELSE Put(act.eps, id, {NewIPPort(eps[i].ip, eps[i].port) : i \in 1..Len(eps)})]

\* act: the two views, [svcs, eps].
addActiveEps(act, id, svc, eps) ==
    [svcs |-> Put(act.svcs, servicePortToIPPortProto(svc), id),
     eps  |-> IF Len(eps) = 0 THEN act.eps
              ELSE Put(act.eps, id,
                       {NewIPPort(eps[i].ip, eps[i].port) :
                          i \in {j \in 1..Len(eps) :
                                    ~(/\ eps[j].terminating
                                      /\ svc.protocol = "UDP"
                                      /\ svc.reapTerminatingUDP)}})]

buildActive_primaryOnly(svcMap, epsMap, order) ==
    FoldSeq(LAMBDA act, skey :
              IF svcMap[skey].count = 0 \/ isSvcKeyDerived(skey) THEN act
              ELSE addActiveEps(act, svcMap[skey].id, svcMap[skey].svc,
                                IF skey.sname \in DOMAIN epsMap THEN epsMap[skey.sname] ELSE <<>>),
            [svcs |-> EmptyMap, eps |-> EmptyMap], order)

\* The loop of ConntrackScanStart; order is the order in which
\* "range s.newSvcMap" visits the entries.
buildActive(svcMap, epsMap, order) ==
    FoldSeq(LAMBDA act, skey :
              IF svcMap[skey].count = 0 THEN act
              ELSE IF isSvcKeyDerived(skey)
                   THEN addActiveEps(act, svcMap[skey].id, svcMap[skey].svc, <<>>)
                   ELSE addActiveEps(act, svcMap[skey].id, svcMap[skey].svc,
                                     IF skey.sname \in DOMAIN epsMap THEN epsMap[skey.sname] ELSE <<>>),
            [svcs |-> EmptyMap, eps |-> EmptyMap], order)

scanViews(act) ==
    /\ activeSvcsMap' = act.svcs
    /\ activeEpsMap' = act.eps

ConntrackScanStart_noLock(order) ==
    /\ mapsLck' = "scan"
    /\ scanViews(buildActive(newSvcMap, newEpsMap, order))
    /\ UNCHANGED <<kernelVars, cacheVars, mapVars, synced, stickyVars, taskVars, rt, ktime,
                   callVars, budgetVars, hist, stopVars, trigVars>>

ConntrackScanStart(order) ==
    /\ mapsLck = "free"
    /\ mapsLck' = "scan"
    /\ scanViews(buildActive(newSvcMap, newEpsMap, order))
    /\ UNCHANGED <<kernelVars, cacheVars, mapVars, synced, stickyVars, taskVars, rt, ktime,
                   callVars, budgetVars, hist, stopVars, trigVars>>

ConntrackScanEnd ==
    /\ mapsLck = "scan"
    /\ activeSvcsMap' = EmptyMap
    /\ activeEpsMap' = EmptyMap
    /\ mapsLck' = "free"
    /\ UNCHANGED <<kernelVars, cacheVars, mapVars, synced, stickyVars, taskVars, rt, ktime,
                   callVars, budgetVars, hist, stopVars, trigVars>>

conntrackGetSvcID_noFallback(svcs, ip, port, proto) ==
    IF [addr |-> ip, port |-> port, proto |-> proto] \in DOMAIN svcs
    THEN <<svcs[[addr |-> ip, port |-> port, proto |-> proto]]>>
    ELSE <<>>

\* The id in the views, in a one-element sequence; <<>> for "not found".
conntrackGetSvcID(svcs, ip, port, proto) ==
    IF [addr |-> ip, port |-> port, proto |-> proto] \in DOMAIN svcs
    THEN <<svcs[[addr |-> ip, port |-> port, proto |-> proto]]>>
    ELSE IF [addr |-> podNPIP, port |-> port, proto |-> proto] \in DOMAIN svcs
         THEN <<svcs[[addr |-> podNPIP, port |-> port, proto |-> proto]]>>
         ELSE <<>>

ConntrackDestIsService(ip, port, proto) == conntrackGetSvcID(activeSvcsMap, ip, port, proto) # <<>>

ConntrackFrontendHasBackend(ip, port, backendIP, backendPort, proto) ==
    /\ conntrackGetSvcID(activeSvcsMap, ip, port, proto) # <<>>
    /\ conntrackGetSvcID(activeSvcsMap, ip, port, proto)[1] \in DOMAIN activeEpsMap
    /\ NewIPPort(backendIP, backendPort)
           \in activeEpsMap[conntrackGetSvcID(activeSvcsMap, ip, port, proto)[1]]

(* ---------------------------------------------------------------------- *)
(* Environment                                                             *)
(* ---------------------------------------------------------------------- *)
\* The route table changes while a fix-up goroutine is there to see it; a
\* goroutine blocked in WaitAfter is woken.
RouteUpdate(t) ==
    /\ fixup.state \in {"waitlock", "running"}
    /\ rt # RouteTables[t]
    /\ rt' = RouteTables[t]
    /\ fixup' = IF fixup.state \in {"waitlock", "running"} THEN [fixup EXCEPT !.wake = TRUE] ELSE fixup
    /\ hist' = [hist EXCEPT !.rtDirty = TRUE]
    /\ UNCHANGED <<kernelVars, cacheVars, mapVars, synced, stickyVars, mapsLck, expFixupStop,
                   ktime, callVars, budgetVars, apiVars>>

\* The process restarts: a new Syncer over the kernel maps as they are.
Restart ==
    /\ pc = "idle"
    /\ nApplies > 0
    /\ nRestarts < MaxRestarts
    /\ nRestarts' = nRestarts + 1
    /\ dpFront' = EmptyMap /\ dpBack' = EmptyMap /\ desFront' = EmptyMap /\ desBack' = EmptyMap
    /\ nextSvcID' = 0
    /\ newSvcMap' = EmptyMap /\ newEpsMap' = EmptyMap
    /\ prevSvcMap' = EmptyMap /\ prevEpsMap' = EmptyMap
    /\ synced' = FALSE
    /\ stickySvcs' = EmptyMap /\ stickyEps' = EmptyMap
    /\ mapsLck' = "free"
    /\ expFixupStop' = "nil"
    /\ fixup' = NoTask
    /\ pc' = "idle" /\ phase' = 0 /\ curD' = 0 /\ expNPMisses' = <<>> /\ lastErr' = FALSE
    /\ stop' = "open" /\ stopOnce' = FALSE /\ stopPc' = "idle"
    /\ triggerFn' = "nil" /\ triggered' = FALSE
    /\ activeSvcsMap' = EmptyMap /\ activeEpsMap' = EmptyMap
    /\ hist' = [hist EXCEPT !.restarted = TRUE, !.same = FALSE, !.afterRestart = FALSE,
                            !.maxSeen = -1, !.issued = <<>>]
    /\ UNCHANGED <<kernelVars, rt, ktime, nApplies, nFails, nStops>>

\* The steps of an Apply in progress, of the fix-up goroutine and of the
\* route table.
Steps ==
    \/ StopExpandNPFixupReturn
    \/ /\ pc = "lock"
       /\ \E svcOrder \in Perms(DOMAIN States[curD].SvcMap) : \E nodeOrder \in Perms(Nodes) :
              ApplyLock(svcOrder, nodeOrder)
    \/ /\ InPhase("bpfSvcs.ApplyDeletionsOnly")
       /\ \E k \in PendingDeletions(desFront, dpFront) : \E ok \in BOOLEAN : DeleteFrontend(k, ok)
    \/ /\ InPhase("bpfEps.ApplyUpdatesOnly")
       /\ \E k \in PendingUpdates(desBack, dpBack) : \E ok \in BOOLEAN : UpdateBackend(k, ok)
    \/ /\ InPhase("bpfSvcs.ApplyUpdatesOnly")
       /\ \E k \in PendingUpdates(desFront, dpFront) : \E ok \in BOOLEAN : UpdateFrontend(k, ok)
    \/ /\ InPhase("bpfEps.ApplyDeletionsOnly")
       /\ \E k \in PendingDeletions(desBack, dpBack) : \E ok \in BOOLEAN : DeleteBackend(k, ok)
    \/ PartialApplyReturn
    \/ \E affOK \in BOOLEAN : ApplyFinish(affOK)
    \/ FixupLock
    \/ FixupPass
    \/ FixupCancelled
    \/ \E t \in 1..Len(RouteTables) : RouteUpdate(t)

Next ==
    \/ /\ pc = "idle"
       /\ \E d \in Menu : \E order \in Perms(DOMAIN States[d].SvcMap) : ApplyCall(d, order)
    \/ Steps
    \/ Restart

Spec == Init /\ [][Next]_vars

\* The syncer with its owner, which sets the trigger and stops it, and the
\* conntrack scanner.
ConcNext ==
    \/ /\ pc = "idle"
       /\ \E d \in ConcMenu : \E order \in Perms(DOMAIN States[d].SvcMap) : ApplyCall(d, order)
    \/ Steps
    \/ SetTriggerFn
    \/ Stop
    \/ StopReturn
    \/ \E order \in Perms(DOMAIN newSvcMap) : ConntrackScanStart(order)
    \/ ConntrackScanEnd

ConcSpec == Init /\ [][ConcNext]_vars

\* The syncer applying the externally reachable services, across restarts
\* and with the conntrack scanner.
ExtNext ==
    \/ /\ pc = "idle"
       /\ \E d \in ExtMenu : \E order \in Perms(DOMAIN States[d].SvcMap) : ApplyCall(d, order)
    \/ Steps
    \/ Restart
    \/ \E order \in Perms(DOMAIN newSvcMap) : ConntrackScanStart(order)
    \/ ConntrackScanEnd

ExtSpec == Init /\ [][ExtNext]_vars

\* The states of service A without node port or external address.
ColdMenu == {1, 2}

\* A syncer constructed over kernel maps that something else wrote.
ColdInit ==
    /\ \E b \in 1..Len(KernelsAtBoot) : kFront = KernelsAtBoot[b].front /\ kBack = KernelsAtBoot[b].back
    /\ kAff = AffinityAtBoot
    /\ rt = RouteTables[1]
    /\ ktime = 0
    /\ NewSyncer
    /\ nApplies = 0 /\ nRestarts = 0 /\ nFails = 0 /\ nStops = 0
    /\ hist = HistInit

\* The steps of an Apply between mapsLck.Lock() and its return.
ApplyCritical ==
    \/ \E k \in PendingDeletions(desFront, dpFront) : \E ok \in BOOLEAN : DeleteFrontend(k, ok)
    \/ \E k \in PendingUpdates(desBack, dpBack) : \E ok \in BOOLEAN : UpdateBackend(k, ok)
    \/ \E k \in PendingUpdates(desFront, dpFront) : \E ok \in BOOLEAN : UpdateFrontend(k, ok)
    \/ \E k \in PendingDeletions(desBack, dpBack) : \E ok \in BOOLEAN : DeleteBackend(k, ok)
    \/ PartialApplyReturn
    \/ \E affOK \in BOOLEAN : ApplyFinish(affOK)

\* Scheduling: a goroutine that can run does run, WaitAfter returns once its
\* context is cancelled, a scan in progress ends, and a goroutine blocked in
\* mapsLck.Lock() gets the lock though others keep taking it (sync.Mutex
\* hands the lock to a starving waiter).
StopFairness ==
    /\ WF_vars(ApplyCritical)
    /\ WF_vars(StopExpandNPFixupReturn)
    /\ WF_vars(StopReturn)
    /\ WF_vars(ConntrackScanEnd)
    /\ SF_vars(FixupLock)
    /\ WF_vars(FixupCancelled)
    /\ WF_vars(FixupPass)

\* The node-port state, whose endpoint 2.0.0.3 has no route in the first
\* route table.
NodePortState == 5

\* The concurrent API around an owner that applies the node-port state, the
\* one that launches fix-up tasks.
StopNext ==
    \/ /\ pc = "idle"
       /\ \E order \in Perms(DOMAIN States[NodePortState].SvcMap) : ApplyCall(NodePortState, order)
    \/ Steps
    \/ SetTriggerFn
    \/ Stop
    \/ StopReturn
    \/ \E order \in Perms(DOMAIN newSvcMap) : ConntrackScanStart(order)
    \/ ConntrackScanEnd

StopSpec == Init /\ [][StopNext]_vars /\ StopFairness

\* Apply and restarts over the kernel maps found at boot; the services have
\* no node port, so no fix-up task is ever launched.
ColdNext ==
    \/ /\ pc = "idle"
       /\ \E d \in ColdMenu : \E order \in Perms(DOMAIN States[d].SvcMap) : ApplyCall(d, order)
    \/ /\ pc = "lock"
       /\ \E svcOrder \in Perms(DOMAIN States[curD].SvcMap) : \E nodeOrder \in Perms(Nodes) :
              ApplyLock(svcOrder, nodeOrder)
    \/ ApplyCritical
    \/ Restart

ColdSpec == ColdInit /\ [][ColdNext]_vars

\* The states with derived frontends and no node-port expansion.
PolicyMenu == {3, 8, 10}

\* Apply and restarts over the services with derived frontends.
PolicyNext ==
    \/ /\ pc = "idle"
       /\ \E d \in PolicyMenu : \E order \in Perms(DOMAIN States[d].SvcMap) : ApplyCall(d, order)
    \/ /\ pc = "lock"
       /\ \E svcOrder \in Perms(DOMAIN States[curD].SvcMap) : \E nodeOrder \in Perms(Nodes) :
              ApplyLock(svcOrder, nodeOrder)
    \/ ApplyCritical
    \/ Restart

PolicySpec == Init /\ [][PolicyNext]_vars

\* The states of service L: with source ranges of both families, without
\* source ranges, and with a source range of the other family only.
RangeMenu == {7, 8, 11}

\* Apply and restarts over the load-balancer service.
RangeNext ==
    \/ /\ pc = "idle"
       /\ \E d \in RangeMenu : \E order \in Perms(DOMAIN States[d].SvcMap) : ApplyCall(d, order)
    \/ /\ pc = "lock"
       /\ \E svcOrder \in Perms(DOMAIN States[curD].SvcMap) : \E nodeOrder \in Perms(Nodes) :
              ApplyLock(svcOrder, nodeOrder)
    \/ ApplyCritical
    \/ Restart

RangeSpec == Init /\ [][RangeNext]_vars

\* The owner of the claim on the fix-up task: it sets the trigger, applies
\* the node-port state, applies it again after an error and on every
\* trigger, and never stops the syncer; the route of the endpoint appears
\* and stays.
FixupNext ==
    \/ SetTriggerFn
    \/ /\ triggerFn = "set"
       /\ nApplies = 0 \/ lastErr \/ triggered
       /\ \E order \in Perms(DOMAIN States[NodePortState].SvcMap) : ApplyCall(NodePortState, order)
    \/ StopExpandNPFixupReturn
    \/ /\ pc = "lock"
       /\ \E svcOrder \in Perms(DOMAIN States[curD].SvcMap) : \E nodeOrder \in Perms(Nodes) :
              ApplyLock(svcOrder, nodeOrder)
    \/ ApplyCritical
    \/ FixupLock
    \/ FixupPass
    \/ FixupCancelled
    \/ RouteUpdate(Len(RouteTables))

\* The node-port states: in the second one endpoint never gets a route.
MissMenu == {5, 9}

\* The syncer applying the node-port states while routes change, with an
\* owner that may set the trigger.
MissNext ==
    \/ /\ pc = "idle"
       /\ \E d \in MissMenu : \E order \in Perms(DOMAIN States[d].SvcMap) : ApplyCall(d, order)
    \/ Steps
    \/ SetTriggerFn

MissSpec == Init /\ [][MissNext]_vars

\* The step of ApplyLock as pc shows it: ApplyLock is the one action that
\* takes pc from "lock" to "write", and it can run exactly when mapsLck is
\* free.
ApplyLockStep == pc = "lock" /\ mapsLck = "free" /\ pc' = "write"

\* Scheduling: the owner's goroutine and the fix-up goroutine run when they
\* can; the route table owes nothing.
FixupFairness ==
    /\ WF_vars(SetTriggerFn)
    /\ WF_vars(\E order \in Perms(DOMAIN States[NodePortState].SvcMap) :
                   /\ triggerFn = "set"
                   /\ nApplies = 0 \/ lastErr \/ triggered
                   /\ ApplyCall(NodePortState, order))
    /\ WF_vars(StopExpandNPFixupReturn)
    /\ WF_pc(ApplyLockStep)
    /\ WF_vars(ApplyCritical)
    /\ WF_vars(FixupLock)
    /\ WF_vars(FixupCancelled)
    /\ WF_vars(FixupPass)

FixupSpec == Init /\ [][FixupNext]_vars /\ FixupFairness

(* ---------------------------------------------------------------------- *)
(* Properties                                                              *)
(* ---------------------------------------------------------------------- *)
\* Every non-blackhole frontend {id i, count n} of front has the backend
\* slots (i,0)..(i,n-1) in back.
SlotsComplete(front, back) ==
    \A k \in DOMAIN front :
        front[k].count # BlackHoleCount =>
            \A i \in 0..(front[k].count - 1) : NewNATBackendKey(front[k].id, i) \in DOMAIN back

KernelWrite == kFront' # kFront \/ kBack' # kBack

\* The kind of a kernel write, read off the kernel maps: 1 a frontend is
\* deleted, 2 a backend slot is added or updated, 3 a frontend is added or
\* updated, 4 a backend slot is deleted.
WriteKind ==
    IF kFront' # kFront
    THEN (IF DOMAIN kFront \subseteq DOMAIN kFront' THEN 3 ELSE 1)
    ELSE (IF DOMAIN kBack \subseteq DOMAIN kBack' THEN 2 ELSE 4)

\* The writes of kind n that the kernel maps still need to match the
\* desired caches.
KernelPending(n) ==
    CASE n = 1 -> PendingDeletions(desFront, kFront)
      [] n = 2 -> PendingUpdates(desBack, kBack)
      [] n = 3 -> PendingUpdates(desFront, kFront)
      [] n = 4 -> PendingDeletions(desBack, kBack)

\* The step in which an Apply that holds the lock runs its sync pass.
SyncPassStep == pc = "lock" /\ pc' = "write"

\* The step in which an Apply returns the error of a partial-apply call.
WriteErrorStep == pc = "write" /\ pc' = "idle"

\* An Apply has returned without error and nothing has happened since.
AfterSuccessfulApply == pc = "idle" /\ hist.lastD # 0 /\ hist.lastOK

\* C1: the kernel starts with every non-blackhole frontend {id i, count n}
\* having all its slots (i,0)..(i,n-1), and keeps it so in every state, so
\* also after each single kernel write of an Apply whose writes succeed.
C1_FrontendsReferenceExistingSlots == SlotsComplete(kFront, kBack)

\* C1 witness: the third partial-apply call has installed a frontend of
\* count 2 and has more frontends to install.
C1_Witness ==
    /\ pc = "write"
    /\ ApplyPhases[phase] = "bpfSvcs.ApplyUpdatesOnly"
    /\ \E k \in DOMAIN kFront : k \in DOMAIN desFront /\ kFront[k] = desFront[k] /\ kFront[k].count = 2
    /\ PendingUpdates(desFront, kFront) # {}

\* C2: every kernel write happens inside an Apply, a frontend is deleted
\* only if it is absent from the desired set, a backend slot likewise, and
\* when a write of one of the four kinds (frontend deletions, backend
\* updates, frontend updates, backend deletions, in this order) happens no
\* write of an earlier kind is left to do.
C2_FourPhaseOrder ==
    [][KernelWrite =>
          /\ pc = "write"
          /\ kFront' # kFront => kBack' = kBack
          /\ WriteKind = 1 => (DOMAIN kFront) \ (DOMAIN kFront') \subseteq PendingDeletions(desFront, kFront)
          /\ WriteKind = 4 => (DOMAIN kBack) \ (DOMAIN kBack') \subseteq PendingDeletions(desBack, kBack)
          /\ \A n \in 1..(WriteKind - 1) : KernelPending(n) = {}]_vars

\* C2 witness: an Apply that has deleted a frontend, updated a backend slot
\* and updated a frontend is about to delete a backend slot.
C2_Witness ==
    /\ pc = "write"
    /\ ApplyPhases[phase] = "bpfEps.ApplyDeletionsOnly"
    /\ PendingDeletions(desBack, kBack) # {}
    /\ \E sk \in DOMAIN prevSvcMap : sk \notin DOMAIN newSvcMap
    /\ \E sk \in DOMAIN newSvcMap : sk \in DOMAIN prevSvcMap /\ newSvcMap[sk].id # prevSvcMap[sk].id

\* The services of the previous and of the current Apply of this syncer
\* whose ServicePorts compare equal keep the id of their primary entry.
PrimaryIDsKept ==
    \A s \in DOMAIN States[curD].SvcMap :
        (/\ s \in DOMAIN States[hist.lastD].SvcMap
         /\ ServicePortEqual(States[hist.lastD].SvcMap[s], States[curD].SvcMap[s]))
        => /\ getSvcKey(s, <<>>) \in DOMAIN newSvcMap
           /\ newSvcMap'[getSvcKey(s, <<>>)].id = newSvcMap[getSvcKey(s, <<>>)].id

C5_NoOrphanBackends ==
    AfterSuccessfulApply =>
        \A b \in DOMAIN kBack : \E f \in DOMAIN kFront : kFront[f].id = b.id /\ kFront[f].count > b.idx

\* C5 witness: a successful Apply has left one slot where the previous pass
\* had two endpoints for the service.
C5_Witness ==
    /\ AfterSuccessfulApply
    /\ Cardinality(DOMAIN kBack) = 1
    /\ \E n \in DOMAIN prevEpsMap : Len(prevEpsMap[n]) = 2

\* The endpoints of service s in the desired state d that apply() keeps:
\* ready and passing the topology filter.
ServedEndpoints(d, s) == SelectSeq(eligibleEps(States[d], s), LAMBDA ep : ep.ready)

\* C6, for the endpoints that pass the topology filter: after a successful
\* Apply(D) every service of D has a kernel frontend at its cluster address
\* with some id i, and every such endpoint has a slot (i, k) with k < count
\* holding its address and port, with k < local-count iff it is local.
C6_ReadyEndpointsHaveSlots ==
    AfterSuccessfulApply =>
        \A s \in DOMAIN States[hist.lastD].SvcMap :
            LET key == getSvcNATKey(States[hist.lastD].SvcMap[s])
                eps == ServedEndpoints(hist.lastD, s)
            IN  /\ key \in DOMAIN kFront
                /\ \A n \in 1..Len(eps) :
                      \E k \in 0..(kFront[key].count - 1) :
                          /\ NewNATBackendKey(kFront[key].id, k) \in DOMAIN kBack
                          /\ kBack[NewNATBackendKey(kFront[key].id, k)]
                                 = NewNATBackendValue(eps[n].ip, eps[n].port)
                          /\ (k < kFront[key].local) <=> eps[n].isLocal

\* C7: after a successful Apply of this syncer the kernel frontend and
\* backend maps are exactly the desired caches the pass filled.
C7_KernelEqualsDesired ==
    (AfterSuccessfulApply /\ ~hist.restarted) => (kFront = desFront /\ kBack = desBack)

\* C7 witness: a successful Apply has dropped a service that the previous
\* pass had.
C7_Witness ==
    /\ AfterSuccessfulApply
    /\ ~hist.restarted
    /\ kFront # EmptyMap
    /\ \E sk \in DOMAIN prevSvcMap : sk \notin DOMAIN newSvcMap

\* C8: an Apply(D) of the same syncer right after a successful Apply(D),
\* the route table unchanged in between, writes nothing to the kernel
\* frontend and backend maps.
C8_RepeatedApplyWritesNothing ==
    [][(pc = "write" /\ hist.same /\ ~hist.afterRestart) => ~KernelWrite]_vars

\* C9: the first Apply(D) of a fresh syncer over the kernel maps that a
\* successful Apply(D) of the previous syncer left, the route table
\* unchanged in between, writes nothing to the kernel frontend and backend
\* maps.
C9_ColdStartApplyWritesNothing ==
    [][(pc = "write" /\ hist.same /\ hist.afterRestart) => ~KernelWrite]_vars

\* C10: when a partial-apply call fails Apply returns in that step, which
\* leaves the kernel maps, the affinity map, the fix-up task and HasSynced
\* as they are; and nothing writes to the kernel maps once Apply has
\* returned.
C10_ErrorShortCircuits ==
    [][/\ WriteErrorStep =>
            /\ lastErr'
            /\ UNCHANGED <<kFront, kBack, kAff, fixup, expFixupStop>>
            /\ HasSynced' = HasSynced
       /\ pc = "idle" => UNCHANGED <<kFront, kBack, kAff>>]_vars

\* C10 witness: the first Apply has returned an error after writing backend
\* slots and no frontend.
C10_Witness ==
    /\ pc = "idle"
    /\ lastErr
    /\ ~HasSynced
    /\ kBack # EmptyMap
    /\ kFront = EmptyMap
    /\ kAff = AffinityAtBoot

\* The step in which an Apply whose kernel writes all succeeded returns.
AllWrittenStep == pc = "finish" /\ pc' = "idle"

\* C11: when the preceding Apply of this syncer returned an error, be it
\* the very first Apply, the Apply(D) whose writes all succeed leaves the
\* kernel frontend and backend maps equal to the desired caches its pass
\* filled for D, with a frontend at the cluster address of every service of
\* D.
C11_ConvergesAfterFailedApply ==
    [][(AllWrittenStep /\ hist.lastD # 0 /\ ~hist.lastOK /\ ~hist.restarted) =>
          /\ kFront' = desFront' /\ kBack' = desBack'
          /\ \A s \in DOMAIN States[curD].SvcMap :
                getSvcNATKey(States[curD].SvcMap[s]) \in DOMAIN kFront']_vars

\* C11 witness: the first Apply failed after writing backend slots, which
\* the second Apply, its writes done, has replaced: the slots it wrote are
\* under another id.
C11_Witness ==
    /\ pc = "finish"
    /\ ~synced
    /\ hist.lastD # 0 /\ ~hist.lastOK /\ ~hist.restarted
    /\ kFront = desFront /\ kBack = desBack
    /\ \A b \in DOMAIN kBack : b.id > 0

\* C12: HasSynced turns true only in the step in which an Apply returns
\* without error, every Apply that returns without error leaves it true, and
\* it turns false only when a new syncer is constructed.
C12_HasSyncedIffAnApplySucceeded ==
    [][/\ (~HasSynced /\ HasSynced') => (pc # "idle" /\ pc' = "idle" /\ ~lastErr')
       /\ (pc # "idle" /\ pc' = "idle" /\ ~lastErr') => HasSynced'
       /\ (HasSynced /\ ~HasSynced') => nRestarts' # nRestarts]_vars

(* ---------------------------------------------------------------------- *)
(* Properties of the fix-up task, Stop and the conntrack scan              *)
(* ---------------------------------------------------------------------- *)
\* A step of the fix-up goroutine past its Lock: a pass of the callback, or
\* its return.
FixupStep ==
    /\ fixup.state = "running"
    /\ fixup'.state # "running" \/ fixup'.misses # fixup.misses \/ (fixup.wake /\ ~fixup'.wake)

\* The trigger callback is invoked with no invocation pending.
TriggerStep == ~triggered /\ triggered'

\* An Apply is between mapsLck.Lock() and its Unlock.
ApplyInCriticalSection == pc \in {"write", "finish"}

\* A conntrack scan is between ConntrackScanStart and ConntrackScanEnd.
Scanning == mapsLck = "scan"

\* C13: the fix-up task re-expands the misses, calls the trigger and returns
\* only as the holder of mapsLck, so never while an Apply is in its critical
\* section and never during a conntrack scan; and an Apply in its critical
\* section holds the lock.
C13_FixupRunsUnderMapsLck ==
    [][/\ (FixupStep \/ TriggerStep) =>
             (mapsLck = "fixup" /\ ~ApplyInCriticalSection /\ ~Scanning)
       /\ ApplyInCriticalSection => mapsLck = "apply"]_vars

\* C13 witness: the task has re-expanded its misses under the lock, called
\* the trigger and returned, releasing the lock.
C13_Witness ==
    /\ triggered
    /\ fixup.state = "exited"
    /\ mapsLck = "free"
    /\ pc = "idle"

\* The step in which runExpandNPFixup launches a task.
LaunchStep == pc = "finish" /\ pc' = "idle" /\ Len(expNPMisses) > 0

\* No task is registered and none is alive.
NoTaskAlive == expFixupStop = "nil" /\ fixup.state \in {"none", "exited"}

\* C14: when an Apply takes mapsLck and when runExpandNPFixup launches a
\* task, no task launched before is registered (expFixupStop is nil) or
\* alive, so at most one task is alive at any time.
C14_OneFixupTask == [][(SyncPassStep \/ LaunchStep) => NoTaskAlive]_vars

\* C14 witness: an Apply that stopped and joined the task of the preceding
\* Apply is about to launch a task of its own.
C14_Witness ==
    /\ pc = "finish"
    /\ synced
    /\ Len(expNPMisses) > 0
    /\ hist.lastOK
    /\ NoTaskAlive

\* C16: no close of a closed channel, in any state; the global stop channel
\* changes only from open to closed; a Stop call after the first changes
\* nothing but the count of calls.
C16_StopIdempotent ==
    [][/\ stop' # "panic" /\ expFixupStop' # "panic"
       /\ stop' # stop => (stop = "open" /\ stop' = "closed")
       /\ (nStops' # nStops /\ nStops >= 1) =>
             UNCHANGED <<kernelVars, cacheVars, mapVars, synced, stickyVars, mapsLck, taskVars,
                         rt, ktime, callVars, budgetVars, hist, stop, stopOnce, stopPc, trigVars,
                         scanVars>>]_vars

\* C16 witness: after two Stop calls and the return of the task, an Apply
\* has closed the per-launch channel of that task.
C16_Witness ==
    /\ nStops = 2
    /\ stop = "closed"
    /\ stopPc = "idle"
    /\ pc = "stopfixup"
    /\ expFixupStop = "closed"
    /\ fixup.state = "exited"

\* C18: during a conntrack scan no Apply is in its critical section, and
\* newSvcMap, newEpsMap and the two views do not change, so that
\* ConntrackDestIsService and ConntrackFrontendHasBackend keep their answers
\* for every frontend and backend of the kernel maps.
C18_ScanExcludesApply ==
    [][/\ Scanning' => ~ApplyInCriticalSection'
       /\ (Scanning /\ Scanning') =>
             /\ UNCHANGED <<newSvcMap, newEpsMap, activeSvcsMap, activeEpsMap>>
             /\ \A f \in DOMAIN kFront :
                   /\ ConntrackDestIsService(f.addr, f.port, f.proto)'
                         = ConntrackDestIsService(f.addr, f.port, f.proto)
                   /\ \A b \in DOMAIN kBack :
                         ConntrackFrontendHasBackend(f.addr, f.port, kBack[b].addr, kBack[b].port,
                                                     f.proto)'
                            = ConntrackFrontendHasBackend(f.addr, f.port, kBack[b].addr,
                                                          kBack[b].port, f.proto)]_vars

\* C18 witness: an Apply waits for mapsLck while a scan is in progress over
\* the services of the preceding Apply.
C18_Witness ==
    /\ Scanning
    /\ pc = "lock"
    /\ activeSvcsMap # EmptyMap
    /\ activeEpsMap # EmptyMap

\* The entry of newSvcMap under skey is in activeSvcs with its id, and its
\* address, port and protocol are a service to the scanner.
InActiveSvcs(skey) ==
    /\ servicePortToIPPortProto(newSvcMap[skey].svc) \in DOMAIN activeSvcsMap
    /\ activeSvcsMap[servicePortToIPPortProto(newSvcMap[skey].svc)] = newSvcMap[skey].id
    /\ ConntrackDestIsService(newSvcMap[skey].svc.clusterIP, newSvcMap[skey].svc.port,
                              ProtoV1ToInt(newSvcMap[skey].svc.protocol))

\* C19 as stated: during a scan every entry of the most recent sync pass,
\* primary or derived and whatever its backend count, is in activeSvcs.
C19_EveryEntryIsActive ==
    Scanning => \A skey \in DOMAIN newSvcMap : InActiveSvcs(skey)

\* C19 amended: the same for the entries with at least one backend.
C19_EveryEntryWithBackendsIsActive ==
    Scanning => \A skey \in DOMAIN newSvcMap : newSvcMap[skey].count > 0 => InActiveSvcs(skey)

\* C19 witness: a scan over a pass that produced a derived entry with
\* backends.
C19_Witness ==
    /\ Scanning
    /\ \E skey \in DOMAIN newSvcMap : isSvcKeyDerived(skey) /\ newSvcMap[skey].count > 0

\* The addresses and ports of the endpoints in eps.
IPPorts(eps) == {NewIPPort(eps[i].ip, eps[i].port) : i \in 1..Len(eps)}

\* The endpoints a service loses as terminating: all of them when it is UDP
\* with reap-terminating-UDP set.
Reaped(svc, eps) ==
    SelectSeq(eps, LAMBDA ep : ep.terminating /\ svc.protocol = "UDP" /\ svc.reapTerminatingUDP)

\* The desired state of the most recent sync pass while no Apply is past
\* its Lock.
LastPass == States[hist.lastD]

\* activeEps of the primary entry of service s.
ActiveEpsOf(s) ==
    IF newSvcMap[getSvcKey(s, <<>>)].id \in DOMAIN activeEpsMap
    THEN activeEpsMap[newSvcMap[getSvcKey(s, <<>>)].id]
    ELSE {}

\* C20 as stated: during a scan activeEps of a service is exactly its ready
\* endpoints, less the terminating ones of a UDP service that reaps them,
\* and ConntrackFrontendHasBackend is false for an endpoint that is
\* terminating and not ready.
C20_ActiveEpsAreTheReadyOnes ==
    (Scanning /\ hist.lastD # 0) =>
        \A s \in DOMAIN LastPass.SvcMap :
            LET svc == LastPass.SvcMap[s]
                eps == IF s \in DOMAIN LastPass.EpsMap THEN LastPass.EpsMap[s] ELSE <<>>
            IN  /\ ActiveEpsOf(s) = IPPorts(SelectSeq(eps, LAMBDA ep : ep.ready))
                                       \ IPPorts(Reaped(svc, eps))
                /\ \A i \in 1..Len(eps) :
                      (eps[i].terminating /\ ~eps[i].ready) =>
                          ~ConntrackFrontendHasBackend(svc.clusterIP, svc.port, eps[i].ip,
                                                       eps[i].port, ProtoV1ToInt(svc.protocol))

\* C20 amended: during a scan activeEps of a service with at least one
\* backend is exactly the endpoints apply() kept for it, ready or
\* terminating and passing the topology filter, less the terminating ones
\* of a UDP service that reaps them, for which ConntrackFrontendHasBackend
\* is false; a service without backends has no activeEps.
C20_ActiveEpsAreTheKeptOnes ==
    (Scanning /\ hist.lastD # 0) =>
        \A s \in DOMAIN LastPass.SvcMap :
            LET svc  == LastPass.SvcMap[s]
                kept == eligibleEps(LastPass, s)
            IN  IF newSvcMap[getSvcKey(s, <<>>)].count > 0
                THEN /\ ActiveEpsOf(s) = IPPorts(kept) \ IPPorts(Reaped(svc, kept))
                     /\ \A i \in 1..Len(kept) :
                           ConntrackFrontendHasBackend(svc.clusterIP, svc.port, kept[i].ip,
                                                       kept[i].port, ProtoV1ToInt(svc.protocol))
                              <=> NewIPPort(kept[i].ip, kept[i].port) \notin IPPorts(Reaped(svc, kept))
                ELSE ActiveEpsOf(s) = {}

\* C20 witness: a scan over a pass with a UDP service that reaps a
\* terminating endpoint and keeps a ready one.
C20_Witness ==
    /\ Scanning
    /\ hist.lastD # 0
    /\ \E s \in DOMAIN LastPass.SvcMap :
          /\ Reaped(LastPass.SvcMap[s], eligibleEps(LastPass, s)) # <<>>
          /\ ActiveEpsOf(s) # {}

\* C15: a StopExpandNPFixup that has closed the per-launch channel returns,
\* a Stop that has closed the global channel returns, both with the task
\* gone, and no trigger is invoked while no task is running.
C15_StopsTerminate ==
    /\ (pc = "stopfixup") ~> (pc = "lock")
    /\ (stopPc = "wait") ~> (stopPc = "idle")
    /\ [][/\ (pc = "stopfixup" /\ pc' = "lock") => ~(fixup.state \in {"waitlock", "running"})
          /\ (stopPc = "wait" /\ stopPc' = "idle") => ~(fixup.state \in {"waitlock", "running"})
          /\ TriggerStep => fixup.state = "running"]_vars

\* C15 witness: Stop has returned after a task that was blocked in
\* WaitAfter with misses left, and that task is gone.
C15_Witness ==
    /\ stopOnce
    /\ stopPc = "idle"
    /\ fixup.state = "exited"
    /\ expFixupStop = "open"
    /\ rt = RouteTables[1]
    /\ ~triggered

\* The endpoints of the misses of the task that now have a remote-workload
\* route.
ResolvedMisses ==
    {ep \in UNION {SeqToSet(fixup.misses[i].eps) : i \in 1..Len(fixup.misses)} :
        /\ ep.ip \in DOMAIN rt
        /\ FlagWorkload \in rt[ep.ip].flags
        /\ FlagLocal \notin rt[ep.ip].flags}

\* The kernel has a frontend at (next hop of ip, nport) with ip:port among
\* its backends.
RemoteServed(ip, port, nport) ==
    /\ ip \in DOMAIN rt
    /\ \E f \in DOMAIN kFront :
          /\ f.addr = rt[ip].nextHop
          /\ f.port = nport
          /\ \E i \in 0..(kFront[f].count - 1) :
                /\ NewNATBackendKey(kFront[f].id, i) \in DOMAIN kBack
                /\ kBack[NewNATBackendKey(kFront[f].id, i)] = NewNATBackendValue(ip, port)

\* C17: once the endpoint 2.0.0.3 of the node-port service, without a route
\* at Apply time and so among the misses of the task, has a remote-workload
\* route, the trigger is eventually invoked unless the task is cancelled
\* first, and eventually a NodePortRemote frontend at (next hop, node port)
\* with that endpoint among its backends is in the kernel.
C17_MissEventuallyServed ==
    /\ (fixup.state \in {"waitlock", "running"} /\ ResolvedMisses # {})
          ~> (triggered \/ ctxCancelled(expFixupStop, stop))
    /\ (fixup.state \in {"waitlock", "running"} /\ ResolvedMisses # {})
          ~> RemoteServed("2.0.0.3", 8080, SvcANodePort.nodePort)

\* C17 witness: the endpoint is served through its node after the trigger
\* made the owner apply again.
C17_Witness ==
    /\ RemoteServed("2.0.0.3", 8080, SvcANodePort.nodePort)
    /\ pc = "idle"
    /\ ~triggered
    /\ nApplies >= 2
    /\ fixup.state = "none"

(* ---------------------------------------------------------------------- *)
(* Properties of the externally reachable frontends                        *)
(* ---------------------------------------------------------------------- *)
\* The destinations and backends a conntrack scan asks about: the frontend
\* addresses of the services, a node address that is no frontend, the
\* service and node ports, the endpoints.
QueryAddrs == {"10.0.0.1", "10.0.0.4", "10.1.0.1", "10.2.0.1", "192.168.1.10", "192.168.1.21", podNPIP}

QueryPorts == {80, 31000, 31001}

QueryBackends == {NewIPPort(ip, 8080) : ip \in {"2.0.0.1", "2.0.0.2", "2.0.0.3", "2.0.0.4"}}

IPPortProto(ip, port, proto) == [addr |-> ip, port |-> port, proto |-> proto]

\* The id the views give for a destination by the direct entry, or else by
\* the entry of the sentinel node-port address; -1 when there is neither.
ViewID(ip, port, proto) ==
    IF IPPortProto(ip, port, proto) \in DOMAIN activeSvcsMap
    THEN activeSvcsMap[IPPortProto(ip, port, proto)]
    ELSE IF IPPortProto(podNPIP, port, proto) \in DOMAIN activeSvcsMap
         THEN activeSvcsMap[IPPortProto(podNPIP, port, proto)]
         ELSE -1

\* C21: during a scan ConntrackDestIsService is true iff the destination, or
\* else the sentinel node-port address with its port and protocol, is in
\* activeSvcs; ConntrackFrontendHasBackend is true iff such an id is found
\* and the backend is in activeEps of that id; and a derived frontend of a
\* service gets the answers of the service's primary frontend.
C21_ConntrackQueries ==
    Scanning =>
        /\ \A ip \in QueryAddrs : \A port \in QueryPorts :
              /\ ConntrackDestIsService(ip, port, 6) <=> ViewID(ip, port, 6) # -1
              /\ \A b \in QueryBackends :
                    ConntrackFrontendHasBackend(ip, port, b.ip, b.port, 6)
                        <=> /\ ViewID(ip, port, 6) \in DOMAIN activeEpsMap
                            /\ b \in activeEpsMap[ViewID(ip, port, 6)]
        /\ \A skey \in DOMAIN newSvcMap :
              (isSvcKeyDerived(skey) /\ newSvcMap[skey].count # 0) =>
                  LET d == servicePortToIPPortProto(newSvcMap[skey].svc)
                      p == servicePortToIPPortProto(newSvcMap[getSvcKey(skey.sname, <<>>)].svc)
                  IN  /\ ConntrackDestIsService(d.addr, d.port, d.proto)
                            = ConntrackDestIsService(p.addr, p.port, p.proto)
                      /\ \A b \in QueryBackends :
                            ConntrackFrontendHasBackend(d.addr, d.port, b.ip, b.port, d.proto)
                                = ConntrackFrontendHasBackend(p.addr, p.port, b.ip, b.port, p.proto)

\* C21 witness: a scan over the node-port service L answers for a node
\* address that is no frontend through the sentinel entry, and for the
\* load-balancer VIP as for the cluster address.
C21_Witness ==
    /\ Scanning
    /\ IPPortProto("192.168.1.21", 31001, 6) \notin DOMAIN activeSvcsMap
    /\ ConntrackDestIsService("192.168.1.21", 31001, 6)
    /\ ConntrackFrontendHasBackend("192.168.1.21", 31001, "2.0.0.1", 8080, 6)
    /\ ConntrackFrontendHasBackend("10.1.0.1", 80, "2.0.0.1", 8080, 6)
    /\ ConntrackFrontendHasBackend("10.0.0.4", 80, "2.0.0.1", 8080, 6)
    /\ ~ConntrackFrontendHasBackend("10.1.0.1", 80, "2.0.0.2", 8080, 6)

(* ---------------------------------------------------------------------- *)
(* Properties of the affinity sweep                                        *)
(* ---------------------------------------------------------------------- *)
\* The backends the kernel holds for the frontend value v.
KernelBackends(v) ==
    {kBack[NewNATBackendKey(v.id, i)] :
        i \in {j \in 0..(v.count - 1) : NewNATBackendKey(v.id, j) \in DOMAIN kBack}}

\* C22: after a successful Apply every affinity record belongs to a frontend
\* of this pass, names one of the backends of that frontend's id, and is no
\* older than the affinity timeout of the frontend.
C22_AffinityRecordsAreLive ==
    AfterSuccessfulApply =>
        \A k \in DOMAIN kAff :
            \E f \in DOMAIN kFront :
                /\ AffinityKeyCopy(f) = k.fe
                /\ kFront[f].count # BlackHoleCount
                /\ kAff[k].backend \in KernelBackends(kFront[f])
                /\ ktime - kAff[k].ts <= kFront[f].affinityTimeo

\* C22 witness: a successful Apply has kept the record of a backend of A
\* and deleted the record of an address that is no backend and the record
\* of an unknown frontend.
C22_Witness ==
    /\ AfterSuccessfulApply
    /\ DOMAIN kAff = {AffinityKey("c1", "10.0.0.1", 80, 6)}
    /\ ktime - kAff[AffinityKey("c1", "10.0.0.1", 80, 6)].ts = 1

\* C23: every frontend value the syncer sets, and so every one it writes to
\* the kernel, has local-count <= count.
C23_LocalCountWithinCount ==
    /\ \A k \in DOMAIN desFront : desFront[k].local <= desFront[k].count
    /\ \A k \in DOMAIN kFront : kFront[k].local <= kFront[k].count

\* C23 witness: the desired frontends hold a blackhole and a frontend that
\* counts one local backend for a list of two local endpoints.
C23_Witness ==
    /\ \E k \in DOMAIN desFront : desFront[k].count = BlackHoleCount /\ desFront[k].local = 0
    /\ \E k \in DOMAIN desFront : desFront[k].count = 1 /\ desFront[k].local = 1
    /\ \E n \in DOMAIN newEpsMap : Len(SelectSeq(newEpsMap[n], LAMBDA ep : ep.isLocal)) = 2

\* An Apply holds the result of its sync pass.
PassDone == pc \in {"write", "finish"}

\* The source CIDRs of the desired frontends at (addr, port, proto).
DesiredSrcsAt(addr, port, proto) ==
    {k.src : k \in {x \in DOMAIN desFront : x.addr = addr /\ x.port = port /\ x.proto = proto}}

\* The desired frontend at key k carries the id, count and local-count of
\* the primary frontend of svc.
CarriesRealValue(k, svc) ==
    /\ desFront[k].id = desFront[getSvcNATKey(svc)].id
    /\ desFront[k].count = desFront[getSvcNATKey(svc)].count
    /\ desFront[k].local = desFront[getSvcNATKey(svc)].local

\* The desired frontends at the load-balancer VIPs and external addresses
\* of the services of the pass are, for the source ranges given: one with
\* the real value per range and a blackhole at src-CIDR zero, or with no
\* range a single one at src-CIDR zero with the real value.
LBFrontendsFor(ranges(_)) ==
    \A s \in DOMAIN States[curD].SvcMap :
        LET svc   == States[curD].SvcMap[s]
            proto == ProtoV1ToInt(svc.protocol)
        IN  \A addr \in SeqToSet(svc.loadBalancerVIPs) \cup SeqToSet(svc.externalIPs) :
                IF Len(svc.loadBalancerSourceRanges) # 0
                THEN /\ DesiredSrcsAt(addr, svc.port, proto) = ranges(svc) \cup {ZeroCIDR}
                     /\ \A src \in ranges(svc) :
                           CarriesRealValue(NewNATKeySrc(addr, svc.port, proto, src), svc)
                     /\ desFront[NewNATKey(addr, svc.port, proto)].count = BlackHoleCount
                ELSE /\ DesiredSrcsAt(addr, svc.port, proto) = {ZeroCIDR}
                     /\ CarriesRealValue(NewNATKey(addr, svc.port, proto), svc)
                     /\ desFront[NewNATKey(addr, svc.port, proto)].count # BlackHoleCount

\* C24 as stated: one frontend with the real value per source range of the
\* service, plus the blackhole.
C24_OneFrontendPerSourceRange ==
    PassDone => LBFrontendsFor(LAMBDA svc : SeqToSet(svc.loadBalancerSourceRanges))

\* C24 amended: one frontend with the real value per source range of the
\* syncer's address family, plus the blackhole.
C24_OneFrontendPerSourceRangeOfFamily ==
    PassDone => LBFrontendsFor(LAMBDA svc : SeqToSet(svc.loadBalancerSourceRanges) \ V6CIDRs)

\* C24 witness: the pass over L with its two source ranges desires, at the
\* VIP and at the external address, the IPv4 range with the value of the
\* primary frontend and the blackhole.
C24_Witness ==
    /\ PassDone
    /\ "L" \in DOMAIN States[curD].SvcMap
    /\ Len(States[curD].SvcMap["L"].loadBalancerSourceRanges) = 2
    /\ \A addr \in {"10.1.0.1", "10.2.0.1"} :
          /\ NewNATKeySrc(addr, 80, 6, "172.16.0.0/16") \in DOMAIN desFront
          /\ desFront[NewNATKeySrc(addr, 80, 6, "172.16.0.0/16")].count = 1
          /\ desFront[NewNATKey(addr, 80, 6)].count = BlackHoleCount

(* ---------------------------------------------------------------------- *)
(* Properties of the node-port expansion                                   *)
(* ---------------------------------------------------------------------- *)
\* The endpoints of eps that the route table sends to the remote node.
EndpointsAt(eps, node) ==
    SelectSeq(eps, LAMBDA ep : /\ ep.ip \in DOMAIN rt
                               /\ FlagWorkload \in rt[ep.ip].flags
                               /\ FlagLocal \notin rt[ep.ip].flags
                               /\ rt[ep.ip].nextHop = node)

\* The backends the desired caches hold for the frontend at key k.
DesiredBackends(k) ==
    {desBack[NewNATBackendKey(desFront[k].id, i)] :
        i \in {j \in 0..(desFront[k].count - 1) : NewNATBackendKey(desFront[k].id, j) \in DOMAIN desBack}}

\* C25: the pass over a service with a node port and the internal-local
\* policy desires no frontend at the sentinel address, one NodePort frontend
\* with the value of the primary at each other node-port address, and, for
\* each node that the route table gives as the remote next hop of at least
\* one endpoint of the pass, exactly one frontend at (node, node port) whose
\* backends are the ready endpoints of that node.
C25_NodePortLocalFrontends ==
    PassDone =>
        \A s \in DOMAIN States[curD].SvcMap :
            LET svc   == States[curD].SvcMap[s]
                proto == ProtoV1ToInt(svc.protocol)
                eps   == eligibleEps(States[curD], s)
            IN  (svc.nodePort # 0 /\ svc.nodeLocalInternal) =>
                    /\ DesiredSrcsAt(podNPIP, svc.nodePort, proto) = {}
                    /\ \A npip \in SeqToSet(nodePortIPs) \ {podNPIP} :
                          /\ DesiredSrcsAt(npip, svc.nodePort, proto) = {ZeroCIDR}
                          /\ CarriesRealValue(NewNATKey(npip, svc.nodePort, proto), svc)
                    /\ \A node \in Nodes :
                          Len(EndpointsAt(eps, node)) # 0 =>
                              /\ DesiredSrcsAt(node, svc.nodePort, proto) = {ZeroCIDR}
                              /\ DesiredBackends(NewNATKey(node, svc.nodePort, proto))
                                    = {NewNATBackendValue(ep.ip, ep.port) :
                                          ep \in {e \in SeqToSet(EndpointsAt(eps, node)) : e.ready}}
                              /\ desFront[NewNATKey(node, svc.nodePort, proto)].count
                                    = Cardinality({e \in SeqToSet(EndpointsAt(eps, node)) : e.ready})

\* C25 witness: the pass over the node-port service with endpoints on two
\* remote nodes desires a frontend at each node, with ids of their own, and
\* the frontend at the host address with the id of the primary.
C25_Witness ==
    /\ PassDone
    /\ curD = NodePortState
    /\ NewNATKey("192.168.1.21", 31000, 6) \in DOMAIN desFront
    /\ NewNATKey("192.168.1.22", 31000, 6) \in DOMAIN desFront
    /\ desFront[NewNATKey("192.168.1.21", 31000, 6)].id # desFront[NewNATKey("192.168.1.22", 31000, 6)].id
    /\ desFront[NewNATKey("192.168.1.10", 31000, 6)].id = desFront[NewNATKey("10.0.0.1", 80, 6)].id
    /\ DesiredBackends(NewNATKey("192.168.1.22", 31000, 6)) = {NewNATBackendValue("2.0.0.3", 8080)}

(* ---------------------------------------------------------------------- *)
(* Properties of the cold start                                            *)
(* ---------------------------------------------------------------------- *)
\* The step in which an Apply of a syncer that has not synced runs
\* startupSync.
ColdStartStep == pc = "idle" /\ pc' = "lock" /\ ~synced

\* The kernel lacks a backend slot below the count of the frontend at the
\* cluster address of a service of the state being applied.
KernelInconsistent ==
    \E s \in DOMAIN States[curD].SvcMap :
        LET k == getSvcNATKey(States[curD].SvcMap[s])
        IN  /\ k \in DOMAIN kFront
            /\ kFront[k].count # BlackHoleCount
            /\ \E i \in 0..(kFront[k].count - 1) : NewNATBackendKey(kFront[k].id, i) \notin DOMAIN kBack

\* C26: when cold-start reconstruction finds a slot of a matched primary
\* frontend missing, the previous service map and the previous endpoints
\* map it leaves are empty, and every id of the pass that follows is one
\* that newSvcID issued in it.
C26_InconsistentKernelGivesNoPrev ==
    [][/\ (ColdStartStep /\ KernelInconsistent') =>
              (prevSvcMap' = EmptyMap /\ prevEpsMap' = EmptyMap)
       /\ (SyncPassStep /\ ~synced /\ KernelInconsistent) =>
              \A sk \in DOMAIN newSvcMap' : newSvcMap'[sk].id \in SeqToSet(hist'.issued)]_vars

(* ---------------------------------------------------------------------- *)
(* Properties of the trigger                                               *)
(* ---------------------------------------------------------------------- *)
\* One wake-up of the fix-up task whose context is not cancelled: the
\* callback consumes the pending route change.
WakeUpStep ==
    /\ fixup.state = "running"
    /\ fixup.wake
    /\ ~fixup'.wake
    /\ ~ctxCancelled(expFixupStop, stop)

\* The endpoints of miss m that have no route.
StillUnrouted(m) == {ep \in SeqToSet(m.eps) : ep.ip \notin DOMAIN rt}

\* Some miss of the task is fully resolved or is left with other endpoints
\* than it had.
SomeMissChanged ==
    \E i \in 1..Len(fixup.misses) :
        \/ StillUnrouted(fixup.misses[i]) = {}
        \/ StillUnrouted(fixup.misses[i]) # SeqToSet(fixup.misses[i].eps)

\* C27: a wake-up of the fix-up task with no invocation pending invokes the
\* trigger if and only if a trigger function is registered and some miss was
\* resolved or changed its unresolved endpoints; when no miss changed the
\* trigger is not invoked and the task goes on waiting with the same misses.
C27_TriggerIffMissChanged ==
    [][(WakeUpStep /\ ~triggered) =>
           /\ triggered' <=> (triggerFn # "nil" /\ SomeMissChanged)
           /\ ~SomeMissChanged => (fixup'.state = "running" /\ fixup'.misses = fixup.misses)]_vars

\* The trigger was invoked for a miss that shrank, and the task waits on.
C27_Witness ==
    /\ triggered
    /\ triggerFn = "set"
    /\ fixup.state = "running"
    /\ ~fixup.wake
    /\ Len(fixup.misses) = 1
    /\ Len(fixup.misses[1].eps) = 1

\* C28: the wake-up in which the fix-up task invokes the trigger is its
\* last: the task exits with it, whether or not endpoints are unresolved.
C28_TriggerThenExit ==
    [][(WakeUpStep /\ TriggerStep) => fixup'.state = "exited"]_vars

\* C28 as the code has it: a wake-up of the fix-up task is its last exactly
\* when it leaves no endpoint of any miss without a route; with an endpoint
\* left the task waits on, whether or not it invoked the trigger.
C28_ExitIffNoMissLeft ==
    [][WakeUpStep =>
           /\ fixup'.state = "exited" <=>
                  \A i \in 1..Len(fixup.misses) : StillUnrouted(fixup.misses[i]) = {}
           /\ fixup'.state # "exited" =>
                  /\ fixup'.state = "running"
                  /\ \A i \in 1..Len(fixup'.misses) :
                         SeqToSet(fixup'.misses[i].eps) \subseteq
                             UNION {StillUnrouted(fixup.misses[j]) : j \in 1..Len(fixup.misses)}]_vars

\* The task has invoked the trigger, has an endpoint left without a route,
\* and is woken again by a route change.
C28_Witness ==
    /\ triggered
    /\ fixup.state = "running"
    /\ fixup.wake
    /\ Len(fixup.misses) > 0
    /\ \E i \in 1..Len(fixup.misses) : Len(fixup.misses[i].eps) < Len(EpsA4) - Len(EpsA1)

(* ---------------------------------------------------------------------- *)
(* Properties of the cold-start classification                             *)
(* ---------------------------------------------------------------------- *)
\* A source CIDR that a frontend of svc can carry: none, or one of the
\* service's source ranges of the syncer's family.
GeneratedSrc(src, svc) ==
    \/ src = ZeroCIDR
    \/ src \in SeqToSet(svc.loadBalancerSourceRanges) \ V6CIDRs

\* The service keys under which the sync pass generates the frontend key k
\* for the service sname with ServicePort svc.
GeneratedUnder(k, sname, svc) ==
    LET sameProto == k.proto = ProtoV1ToInt(svc.protocol)
    IN  {getSvcKey(sname, <<>>) : x \in {1} \cap (IF k = getSvcNATKey(svc) THEN {1} ELSE {})}
        \cup {getSvcKey(sname, getSvcKeyExtra(svcTypeExternalIP, ip)) :
                 ip \in {a \in SeqToSet(svc.externalIPs) :
                            /\ sameProto /\ k.addr = a /\ k.port = svc.port
                            /\ GeneratedSrc(k.src, svc)}}
        \cup {getSvcKey(sname, getSvcKeyExtra(svcTypeLoadBalancer, ip)) :
                 ip \in {a \in SeqToSet(svc.loadBalancerVIPs) :
                            /\ sameProto /\ k.addr = a /\ k.port = svc.port
                            /\ GeneratedSrc(k.src, svc)}}
        \cup {getSvcKey(sname, getSvcKeyExtra(svcTypeNodePort, ip)) :
                 ip \in {a \in SeqToSet(nodePortIPs) :
                            /\ sameProto /\ svc.nodePort # 0 /\ k.addr = a /\ k.port = svc.nodePort
                            /\ k.src = ZeroCIDR}}

\* C29: cold-start reconstruction records every kernel frontend whose key
\* the desired state generates under the service key that generates it:
\* the primary key, or the ExternalIP, LoadBalancer or NodePort key of its
\* address, for a frontend with a source CIDR as for one without.
C29_ColdStartClassifiesGeneratedFrontends ==
    [][ColdStartStep =>
           \A sname \in DOMAIN States[curD'].SvcMap : \A k \in DOMAIN kFront :
               GeneratedUnder(k, sname, States[curD'].SvcMap[sname]) \subseteq DOMAIN prevSvcMap']_vars

(* ---------------------------------------------------------------------- *)
(* Properties of an endpoint update                                        *)
(* ---------------------------------------------------------------------- *)
\* An Apply is in progress, the Apply before it returned without error, and
\* both have the service sname with the same ServicePort.
SecondApplyOf(sname) ==
    /\ pc # "idle"
    /\ hist.lastOK
    /\ hist.lastD # 0
    /\ sname \in DOMAIN States[hist.lastD].SvcMap
    /\ sname \in DOMAIN States[curD].SvcMap
    /\ States[hist.lastD].SvcMap[sname] = States[curD].SvcMap[sname]

\* The ready endpoints of sname in the state being applied.
ReadyEndpoints(sname) ==
    SelectSeq(States[curD].EpsMap[sname], LAMBDA ep : ep.ready)

\* The ready endpoints of sname that apply() hands to applySvc.
ReadyKeptEndpoints(sname) ==
    SelectSeq(eligibleEps(States[curD], sname), LAMBDA ep : ep.ready)

\* Every step of the second Apply keeps the primary frontend of sname in
\* the kernel with its id.
PrimaryStays(sname) ==
    LET k == getSvcNATKey(States[curD].SvcMap[sname])
    IN  /\ k \in DOMAIN kFront
        /\ k \in DOMAIN kFront'
        /\ kFront'[k].id = kFront[k].id

\* C30: when an Apply follows a successful Apply with the ServicePort of a
\* service unchanged, the primary frontend of the service is in the kernel
\* before and after every step of it with the same id, and when all writes
\* are done its count is the number of ready endpoints of the service.
C30_PrimaryUpdatedInPlace ==
    [][pc # "idle" =>
           \A sname \in DOMAIN States[curD].SvcMap :
               SecondApplyOf(sname) =>
                   /\ PrimaryStays(sname)
                   /\ (AllWrittenStep /\ hist'.lastOK) =>
                          kFront'[getSvcNATKey(States[curD].SvcMap[sname])].count =
                              Len(ReadyEndpoints(sname))]_vars

\* C30 for the endpoints the sync pass is given: the count is the number of
\* ready endpoints that pass the topology filter.
C30_PrimaryUpdatedInPlaceKept ==
    [][pc # "idle" =>
           \A sname \in DOMAIN States[curD].SvcMap :
               SecondApplyOf(sname) =>
                   /\ PrimaryStays(sname)
                   /\ (AllWrittenStep /\ hist'.lastOK) =>
                          kFront'[getSvcNATKey(States[curD].SvcMap[sname])].count =
                              Len(ReadyKeptEndpoints(sname))]_vars

\* The second Apply has written everything: the primary frontend of A has
\* the id it had and the count of the one ready endpoint that is kept,
\* where the Apply before had another count.
C30_Witness ==
    /\ pc = "finish"
    /\ SecondApplyOf("A")
    /\ hist.lastD # curD
    /\ LET k == getSvcNATKey(States[curD].SvcMap["A"])
       IN  /\ k \in DOMAIN kFront
           /\ kFront[k].count = Len(ReadyKeptEndpoints("A"))
           /\ kFront[k].count # Len(SelectSeq(eligibleEps(States[hist.lastD], "A"), LAMBDA ep : ep.ready))
           /\ kFront[k].count # Len(ReadyEndpoints("A"))

(* ---------------------------------------------------------------------- *)
(* Properties of the backend slots                                         *)
(* ---------------------------------------------------------------------- *)
\* The desired backend slots under id are exactly (id,0)..(id,count-1):
\* the ready local endpoints of eps in input order, then the ready
\* non-local ones in input order, local of them local.
SlotsFilled(id, count, local, eps) ==
    LET rl == SelectSeq(eps, LAMBDA ep : ep.ready /\ ep.isLocal)
        ro == SelectSeq(eps, LAMBDA ep : ep.ready /\ ~ep.isLocal)
    IN  /\ count = Len(rl) + Len(ro)
        /\ local = Len(rl)
        /\ \A i \in 1..Len(rl) :
              /\ NewNATBackendKey(id, i - 1) \in DOMAIN desBack
              /\ desBack[NewNATBackendKey(id, i - 1)] = NewNATBackendValue(rl[i].ip, rl[i].port)
        /\ \A i \in 1..Len(ro) :
              /\ NewNATBackendKey(id, Len(rl) + i - 1) \in DOMAIN desBack
              /\ desBack[NewNATBackendKey(id, Len(rl) + i - 1)] = NewNATBackendValue(ro[i].ip, ro[i].port)
        /\ \A bk \in DOMAIN desBack : bk.id = id => bk.idx < count

\* C31: after a sync pass the slots under the id of each primary entry and
\* of each NodePortRemote entry are filled from the ready endpoints it was
\* given, locals first, contiguous from 0, and from nothing else.
C31_SlotsLocalsFirst ==
    PassDone =>
        \A s \in DOMAIN States[curD].SvcMap :
            LET svc   == States[curD].SvcMap[s]
                proto == ProtoV1ToInt(svc.protocol)
                eps   == eligibleEps(States[curD], s)
                pk    == getSvcNATKey(svc)
            IN  /\ pk \in DOMAIN desFront
                /\ SlotsFilled(desFront[pk].id, desFront[pk].count, desFront[pk].local, eps)
                /\ (svc.nodePort # 0 /\ svc.nodeLocalInternal) =>
                      \A node \in Nodes :
                          Len(EndpointsAt(eps, node)) # 0 =>
                              LET nk == NewNATKey(node, svc.nodePort, proto)
                              IN  /\ nk \in DOMAIN desFront
                                  /\ SlotsFilled(desFront[nk].id, desFront[nk].count,
                                                 desFront[nk].local, EndpointsAt(eps, node))

\* The keys of newSvcMap whose entries write backend slots under their id.
SlotOwners ==
    {sk \in DOMAIN newSvcMap : sk.extra = <<>> \/ hasSvcKeyExtra(sk, svcTypeNodePortRemote)}

\* C37: any two distinct keys of newSvcMap that own backend slots have
\* different ids, after the first Apply of a syncer as after any other.
C37_SlotOwnersHaveOwnIds ==
    \A a \in SlotOwners : \A b \in SlotOwners : a # b => newSvcMap[a].id # newSvcMap[b].id

(* ---------------------------------------------------------------------- *)
(* Properties of the derived frontends                                     *)
(* ---------------------------------------------------------------------- *)
\* The kernel frontends at the NodePort, ExternalIP and LoadBalancer
\* addresses of svc that are no blackhole.
DerivedFrontends(svc) ==
    {k \in DOMAIN kFront :
        /\ k.proto = ProtoV1ToInt(svc.protocol)
        /\ kFront[k].count # BlackHoleCount
        /\ \/ /\ k.port = svc.port
              /\ k.addr \in SeqToSet(svc.externalIPs) \cup SeqToSet(svc.loadBalancerVIPs)
           \/ /\ svc.nodePort # 0
              /\ k.port = svc.nodePort
              /\ k.addr \in SeqToSet(nodePortIPs)}

\* C32: after a successful Apply every NodePort, ExternalIP and LoadBalancer
\* frontend of a service that is no blackhole has the id, count and
\* local-count of the service's primary frontend, the ExternalLocal flag
\* exactly when the external policy is local, and the InternalLocal flag
\* exactly when the internal policy is local.
C32_DerivedCarryPrimaryAndPolicy ==
    AfterSuccessfulApply =>
        \A s \in DOMAIN States[hist.lastD].SvcMap :
            LET svc == States[hist.lastD].SvcMap[s]
                pk  == getSvcNATKey(svc)
            IN  \A k \in DerivedFrontends(svc) :
                    /\ pk \in DOMAIN kFront
                    /\ kFront[k].id = kFront[pk].id
                    /\ kFront[k].count = kFront[pk].count
                    /\ kFront[k].local = kFront[pk].local
                    /\ (NATFlgExternalLocal \in kFront[k].flags) <=> svc.nodeLocalExternal
                    /\ (NATFlgInternalLocal \in kFront[k].flags) <=> svc.nodeLocalInternal

(* ---------------------------------------------------------------------- *)
(* Properties of expandNodePorts                                           *)
(* ---------------------------------------------------------------------- *)
\* The places <<node, index>> at which ep stands in the per-node lists.
PlacesOf(ipToEp, ep) ==
    {p \in UNION {{<<n, i>> : i \in 1..Len(ipToEp[n])} : n \in DOMAIN ipToEp} :
        ipToEp[p[1]][p[2]] = ep}

\* expandNodePorts puts each endpoint of eps where its route says.
Partitions(x, eps, lookup) ==
    LET missEps == IF x.miss = <<>> THEN <<>> ELSE x.miss[1].eps
    IN  /\ \A i \in 1..Len(eps) :
              LET ep == eps[i]
              IN  IF ep.ip \notin DOMAIN lookup
                  THEN /\ \E j \in 1..Len(missEps) : missEps[j] = ep
                       /\ PlacesOf(x.ipToEp, ep) = {}
                  ELSE /\ \A j \in 1..Len(missEps) : missEps[j] # ep
                       /\ IF FlagWorkload \in lookup[ep.ip].flags /\ FlagLocal \notin lookup[ep.ip].flags
                          THEN /\ Cardinality(PlacesOf(x.ipToEp, ep)) = 1
                               /\ \A p \in PlacesOf(x.ipToEp, ep) : p[1] = lookup[ep.ip].nextHop
                          ELSE PlacesOf(x.ipToEp, ep) = {}
        /\ Len(missEps) <= Len(eps)
        /\ x.miss = <<>> <=> \A i \in 1..Len(eps) : eps[i].ip \in DOMAIN lookup

\* C33: for the endpoints of every service of the state being applied, under
\* the route table and under the other lookups, expandNodePorts puts every
\* endpoint without a route in miss.eps, every endpoint with a remote
\* workload route exactly once in the list of its next hop, every other
\* endpoint in neither, and returns no miss exactly when no lookup failed;
\* the misses of the pass are those it returns for the route table.
C33_ExpandNodePortsPartitions ==
    pc # "idle" =>
        \A s \in DOMAIN States[curD].SvcMap :
            LET svc == States[curD].SvcMap[s]
                eps == eligibleEps(States[curD], s)
            IN  /\ \A lookup \in {rt} \cup OtherLookups :
                      Partitions(expandNodePorts(s, svc, eps, svc.nodePort, lookup), eps, lookup)
                /\ (PassDone /\ svc.nodePort # 0 /\ svc.nodeLocalInternal) =>
                      expNPMisses = expandNodePorts(s, svc, eps, svc.nodePort, rt).miss

\* The pass over the node-port service has found one endpoint local, one
\* on a remote node and one without a route.
C33_Witness ==
    /\ PassDone
    /\ curD = 9
    /\ Len(expNPMisses) = 1
    /\ Len(expNPMisses[1].eps) = 1
    /\ NewNATKey("192.168.1.22", 31000, 6) \in DOMAIN desFront
    /\ "2.0.0.1" \in DOMAIN rt /\ FlagLocal \in rt["2.0.0.1"].flags

(* ---------------------------------------------------------------------- *)
(* Properties of the endpoints kept for conntrack                          *)
(* ---------------------------------------------------------------------- *)
\* eps as updateService records it: the local endpoints, then the others.
LocalsFirst(eps) ==
    SelectSeq(eps, LAMBDA ep : ep.isLocal) \o SelectSeq(eps, LAMBDA ep : ~ep.isLocal)

\* The keys of the NodePortRemote entries of the last pass.
RemoteKeys == {sk \in DOMAIN newSvcMap : hasSvcKeyExtra(sk, svcTypeNodePortRemote)}

\* C34: after the sync pass newEpsMap[name] holds the endpoints given to the
\* primary entry of the service, whatever NodePortRemote entries the pass
\* applied and in whatever order; and during a scan the queries on a
\* primary frontend are answered from newEpsMap of its service.
C34_RemoteEntriesDoNotShadow ==
    /\ PassDone =>
          \A s \in DOMAIN States[curD].SvcMap :
              /\ s \in DOMAIN newEpsMap
              /\ newEpsMap[s] = LocalsFirst(eligibleEps(States[curD], s))
    /\ Scanning =>
          \A sk \in DOMAIN newSvcMap :
              (sk.extra = <<>> /\ newSvcMap[sk].count > 0) =>
                  LET svc  == newSvcMap[sk].svc
                      kept == newEpsMap[sk.sname]
                  IN  \A b \in QueryBackends :
                          ConntrackFrontendHasBackend(svc.clusterIP, svc.port, b.ip, b.port,
                                                      ProtoV1ToInt(svc.protocol))
                              <=> b \in IPPorts(kept) \ IPPorts(Reaped(svc, kept))

\* A scan after a pass that applied NodePortRemote entries for two nodes:
\* the primary frontend of A answers for all three endpoints of A.
C34_Witness ==
    /\ Scanning
    /\ Cardinality(RemoteKeys) = 2
    /\ Len(newEpsMap["A"]) = 3
    /\ ConntrackFrontendHasBackend("10.0.0.1", 80, "2.0.0.1", 8080, 6)
    /\ ConntrackFrontendHasBackend("10.0.0.1", 80, "2.0.0.2", 8080, 6)
    /\ ConntrackFrontendHasBackend("10.0.0.1", 80, "2.0.0.3", 8080, 6)

(* ---------------------------------------------------------------------- *)
(* Properties of the fix-up task's footprint                               *)
(* ---------------------------------------------------------------------- *)
\* A step of the fix-up task: it takes the lock, runs the callback or
\* returns on cancellation.
TaskStep ==
    /\ fixup.state \in {"waitlock", "running"}
    /\ fixup' # fixup
    /\ rt' = rt

\* C35: a step of the fix-up task leaves the kernel maps, the desired and
\* dataplane caches, newSvcMap, newEpsMap, prevSvcMap, prevEpsMap and every
\* other field of the syncer as they are; it changes only its own misses
\* and position, the lock it holds, and whether the trigger was invoked.
C35_FixupTaskWritesNothing ==
    [][TaskStep =>
           UNCHANGED <<kernelVars, cacheVars, mapVars, synced, stickyVars, expFixupStop, rt, ktime,
                       callVars, hist, stopVars, triggerFn, scanVars>>]_vars

\* The task has resolved a miss and invoked the trigger, and the kernel has
\* no frontend yet at the node the endpoint is on.
C35_Witness ==
    /\ triggered
    /\ fixup.state \in {"running", "exited"}
    /\ pc = "idle"
    /\ "2.0.0.3" \in DOMAIN rt
    /\ NewNATKey("192.168.1.22", 31000, 6) \notin DOMAIN kFront
    /\ getSvcKey("A", getSvcKeyExtra(svcTypeNodePortRemote, "192.168.1.22")) \notin DOMAIN newSvcMap

(* ---------------------------------------------------------------------- *)
(* Properties of the sweep of one record                                   *)
(* ---------------------------------------------------------------------- *)
\* The step in which Apply runs cleanupSticky and it succeeds.
SweepStep == pc = "finish" /\ pc' = "idle" /\ ~lastErr'

\* The record under k is one the sweep has to delete: its frontend is none
\* of the pass's affinity frontends, or its backend was not written for the
\* id of that frontend in the pass, or it is older than the timeout.
Sweepable(k) ==
    IF k.fe \notin DOMAIN stickySvcs THEN TRUE
    ELSE IF stickySvcs[k.fe].id \notin DOMAIN stickyEps THEN TRUE
    ELSE IF kAff[k].backend \notin stickyEps[stickySvcs[k.fe].id] THEN TRUE
    ELSE ktime - kAff[k].ts > stickySvcs[k.fe].timeo

\* C36: the sweep deletes exactly the records that are sweepable and leaves
\* every other record as it is, one whose age equals the timeout included.
C36_SweepDeletesOnlyDeadRecords ==
    [][SweepStep =>
           /\ DOMAIN kAff' = {k \in DOMAIN kAff : ~Sweepable(k)}
           /\ \A k \in DOMAIN kAff' : kAff'[k] = kAff[k]
           /\ \A k \in DOMAIN kAff :
                 (/\ k.fe \in DOMAIN stickySvcs
                  /\ stickySvcs[k.fe].id \in DOMAIN stickyEps
                  /\ kAff[k].backend \in stickyEps[stickySvcs[k.fe].id]
                  /\ ktime - kAff[k].ts = stickySvcs[k.fe].timeo) => k \in DOMAIN kAff']_vars

\* A sweep has kept a record whose age equals the timeout of its frontend
\* and has deleted the two others.
C36_Witness ==
    /\ AfterSuccessfulApply
    /\ hist.lastD = 1
    /\ AffinityKey("c1", "10.0.0.1", 80, 6) \in DOMAIN kAff
    /\ AffinityKey("c2", "10.0.0.1", 80, 6) \notin DOMAIN kAff
    /\ AffinityKey("c1", "10.0.0.9", 80, 6) \notin DOMAIN kAff
    /\ ktime - kAff[AffinityKey("c1", "10.0.0.1", 80, 6)].ts = SvcA.stickyMaxAgeSeconds

(* ---------------------------------------------------------------------- *)
(* Properties of the lock while the task waits                             *)
(* ---------------------------------------------------------------------- *)
\* The fix-up task is blocked in WaitAfter: it has run the callback, misses
\* are left, no route change is pending and its context is not cancelled.
TaskBlocked ==
    /\ fixup.state = "running"
    /\ ~fixup.wake
    /\ ~ctxCancelled(expFixupStop, stop)

\* C38: while the fix-up task is blocked waiting for a route change it does
\* not hold mapsLck, so that a ConntrackScanStart can take the lock without
\* an Apply, a Stop or a route change ending the wait first.
C38_BlockedTaskHoldsNoLock == TaskBlocked => mapsLck # "fixup"

(* ---------------------------------------------------------------------- *)
(* Properties of synced over the life of one syncer                        *)
(* ---------------------------------------------------------------------- *)
\* Apply is called: the step up to mapsLck.Lock() or to expFixupWg.Wait().
ApplyEntered == pc = "idle" /\ pc' \in {"lock", "stopfixup"}

\* The step constructs a new syncer.
NewSyncerStep == nRestarts' # nRestarts

IsBlackHole(k) == k.src = ZeroCIDR /\ desFront[k].count = BlackHoleCount

\* Every source range of svc is of the other address family.
OnlyOtherFamilyRanges(svc) ==
    /\ Len(svc.loadBalancerSourceRanges) # 0
    /\ \A src \in SeqToSet(svc.loadBalancerSourceRanges) :
          IF ipFamily = 6 THEN src \notin V6CIDRs ELSE src \in V6CIDRs

\* C40: in the desired frontends of a pass, every blackhole has beside it,
\* at the same address, port and protocol, a source-range frontend with the
\* id of the service and a real count; and no VIP or external address of a
\* service whose source ranges are all of the other family has a blackhole.
C40_BlackHoleOnlyBesideSourceRange ==
    PassDone =>
        /\ \A k \in DOMAIN desFront :
              IsBlackHole(k) =>
                  \E k2 \in DOMAIN desFront :
                      /\ k2.addr = k.addr /\ k2.port = k.port /\ k2.proto = k.proto
                      /\ k2.src # ZeroCIDR
                      /\ desFront[k2].id = desFront[k].id
                      /\ desFront[k2].count # BlackHoleCount
        /\ \A s \in DOMAIN States[curD].SvcMap :
              LET svc == States[curD].SvcMap[s]
              IN  OnlyOtherFamilyRanges(svc) =>
                      \A addr \in SeqToSet(svc.loadBalancerVIPs) \cup SeqToSet(svc.externalIPs) :
                          ~IsBlackHole(NewNATKey(addr, svc.port, ProtoV1ToInt(svc.protocol)))

\* C40, first half only, over the services that have a source range of the
\* syncer's family: each blackhole stands beside a source-range frontend.
C40_BlackHoleBesideRangeOfFamily ==
    (PassDone /\ \A s \in DOMAIN States[curD].SvcMap :
                     ~OnlyOtherFamilyRanges(States[curD].SvcMap[s])) =>
        \A k \in DOMAIN desFront :
            IsBlackHole(k) =>
                \E k2 \in DOMAIN desFront :
                    /\ k2.addr = k.addr /\ k2.port = k.port /\ k2.proto = k.proto
                    /\ k2.src # ZeroCIDR
                    /\ desFront[k2].id = desFront[k].id
                    /\ desFront[k2].count # BlackHoleCount

====
